---- MODULE Spec2Model ----
(***************************************************************************)
(* Terminal session registry of rust_native_build/src/terminal.rs: the     *)
(* SESSIONS map behind one mutex, the JNI handlers that work on it, the    *)
(* interactive shell processes the sessions own, the process-wide          *)
(* environment, the clock and the part of the file system the handlers     *)
(* look at.                                                                *)
(*                                                                         *)
(* A string is a sequence of one-character strings, so that starts_with,   *)
(* byte slicing, join("\n") and lines() are computed as the code computes  *)
(* them.  A handler is one action: everything it does under the SESSIONS   *)
(* lock is atomic.  Two handlers touch shared state before they take the   *)
(* lock (set_env_var writes the process environment, cleanup reads the     *)
(* clock), so each of them is two actions.                                 *)
(***************************************************************************)
EXTENDS Integers, Sequences, FiniteSets, TLC

VARIABLES
    sessions,        \* SESSIONS: session id -> TerminalSession
    procs,           \* the OS processes spawned so far: pid -> "running" | "exited" | "killed"
    nextId,          \* the next identifier Uuid::new_v4 hands out
    nextPid,         \* the next process id the OS hands out
    penv,            \* the process-wide environment (std::env)
    now,             \* the system clock, in milliseconds
    files,           \* the history files on disk: path -> content
    cleanupPending,  \* the clock samples of the cleanup calls that wait for the lock
    envPending,      \* the set_env_var calls that wrote std::env and wait for the lock
    aborted,         \* a handler panicked: the process is gone
    lock,            \* the SESSIONS mutex: free, or the read_output call that holds it
    pipes,           \* the pipes of each shell: pid -> what went through stdin, stdout, stderr
    oneshot,         \* the execute_command call in progress, with its child and their two pipes
    last             \* the last handler that ran, its arguments and what it returned

vars == <<sessions, procs, nextId, nextPid, penv, now, files,
          cleanupPending, envPending, aborted, lock, pipes, oneshot, last>>

----------------------------------------------------------------------------
(* Bounds of the model.                                                     *)

MaxSessions == 2
MaxProcs == 2
MaxHist == 2
MaxMs == 1
MaxSec == 1
MaxEnvCalls == 2
CdSessions == 1
MaxLines == 2
InputSessions == 1
ExecSessions == 1
UnknownSessions == 1
ReadSessions == 1
LoadSessions == 1
BlockedSessions == 2
ActivitySessions == 1
ClosedSessions == 2
IsolationSessions == 2
PipeCap == 1
MaxWrites == 3

----------------------------------------------------------------------------
(* Strings and paths.                                                       *)

StartsWith(s, p) ==
    Len(s) >= Len(p) /\ SubSeq(s, 1, Len(p)) = p

\* &s[n..]
SliceFrom(s, n) ==
    SubSeq(s, n + 1, Len(s))

IsAbsolute(p) ==
    StartsWith(p, <<"/">>)

\* PathBuf::join (PathBuf::push on Unix): an absolute argument replaces the
\* base; otherwise a separator is added unless the base is empty or ends
\* with one, and the argument is appended.
Join(base, p) ==
    IF IsAbsolute(p) THEN p
    ELSE IF base # <<>> /\ base[Len(base)] # "/" THEN base \o <<"/">> \o p
    ELSE base \o p

\* The names between the separators of a path, empty names dropped: what the
\* OS walks when it resolves the path ("/t//s/" and "/t/s" are one directory).
RECURSIVE SplitPath(_, _, _)
SplitPath(p, i, cur) ==
    IF i > Len(p)
    THEN IF cur = <<>> THEN <<>> ELSE <<cur>>
    ELSE IF p[i] = "/"
         THEN (IF cur = <<>> THEN <<>> ELSE <<cur>>) \o SplitPath(p, i + 1, <<>>)
         ELSE SplitPath(p, i + 1, Append(cur, p[i]))

Components(p) == SplitPath(p, 1, <<>>)

Root == <<"/">>
DirT == <<"/", "t">>
DirTS == <<"/", "t", "s">>
DirS == <<"/", "s">>
DirNope == <<"/", "n">>

\* The directories that exist, each as its names from the root.
Dirs == { Components(Root), Components(DirT), Components(DirTS), Components(DirS) }

\* Path::exists() && Path::is_dir().  The empty path does not exist; a
\* relative path is resolved by the OS against the process's own current
\* directory, taken to be the root.
IsDir(p) ==
    p # <<>> /\ Components(p) \in Dirs

----------------------------------------------------------------------------
(* Values.                                                                  *)

None == <<>>
Some(x) == <<x>>
IsSome(o) == o # <<>>
Unwrap(o) == o[1]

HOME == <<"H", "O", "M", "E">>
TERM == <<"T", "E", "R", "M">>
LANG == <<"L", "A", "N", "G">>
PS1 == <<"P", "S", "1">>
HISTSIZE == <<"HISTSIZE">>
HISTFILESIZE == <<"HISTFILESIZE">>
FOO == <<"F", "O", "O">>

\* Values the code never looks into are written as one element.
TermDefault == <<"xterm-256color">>
LangDefault == <<"en_US.UTF-8">>
Ps1Default == <<"\\[\\e[32m\\]\\u@\\h:\\[\\e[34m\\]\\w\\[\\e[0m\\]\\$ ">>
HistSizeDefault == <<"1000">>
HistFileSizeDefault == <<"2000">>

DefaultNames == {TERM, LANG, HOME, PS1, HISTSIZE, HISTFILESIZE}

\* HashMap::insert
Insert(m, k, v) == (k :> v) @@ m

MsgAlreadyRunning == "A process is already running in this session"
MsgStarted == "Interactive shell started"
MsgSpawnFailed == "Failed to start shell"
MsgNotFound == "Session not found"
MsgInputSent == "Input sent to shell"
MsgWriteFailed == "Failed to send input to shell"
MsgNoStdin == "Shell stdin not available"
MsgNoShell == "No interactive shell running in this session"
MsgCdFailed == <<": No such file or directory">>
MsgExecFailed == <<"Failed to execute command: ">>
MsgRootExecFailed == <<"Failed to execute root command: ">>

Ids == 1 .. MaxSessions

\* What a handler reports: its name, the session id it was called with (0 when
\* it takes none), its boolean result or "success" field, its message, and
\* whatever else it returns.
Ret(op, id, ok, msg, out) ==
    [op |-> op, id |-> id, ok |-> ok, msg |-> msg, out |-> out]

----------------------------------------------------------------------------
(* The state after the library is loaded.                                   *)

\* The ambient environment of the host process.
AmbientEnv == (HOME :> Root)

Init ==
    /\ sessions = <<>>
    /\ procs = <<>>
    /\ nextId = 1
    /\ nextPid = 1
    /\ penv = AmbientEnv
    /\ now = 0
    /\ files = <<>>
    /\ cleanupPending = {}
    /\ envPending = {}
    /\ aborted = FALSE
    /\ lock = None
    /\ pipes = <<>>
    /\ oneshot = None
    /\ last = Ret("init", 0, TRUE, "", <<>>)

\* A handler that does not wait for the mutex.
NoLock == lock' = lock

\* SESSIONS.lock().unwrap() at the head of a handler, the guard dropped when
\* the handler returns: the handler runs when no call holds the mutex, and
\* leaves it free.
WithLock == lock = None /\ lock' = None

\* The pipes of a shell that was just spawned with Stdio::piped(): nothing
\* written to its stdin, nothing emitted.  A stream is the lines the shell
\* emitted, how many of them the BufReader has consumed, and the lines that
\* read_output calls have returned.
NewStream == [emitted |-> <<>>, read |-> 0, returned |-> <<>>]
NewPipes == [stdin |-> <<>>, stdout |-> NewStream, stderr |-> NewStream]

----------------------------------------------------------------------------
(* The clock and the processes: what the handlers do not control.           *)

MsPerSec == 1000

\* current_time_millis()
CurrentTimeMillis == now

CanTickMs == now % MsPerSec < MaxMs
CanTickSec == now \div MsPerSec < MaxSec

\* A millisecond passes.
TickMs ==
    /\ ~aborted
    /\ UNCHANGED oneshot
    /\ UNCHANGED <<lock, pipes>>
    /\ CanTickMs
    /\ now' = now + 1
    /\ last' = Ret("tick", 0, TRUE, "", <<>>)
    /\ UNCHANGED <<sessions, procs, nextId, nextPid, penv, files,
                   cleanupPending, envPending, aborted>>

\* A second passes.
TickSec ==
    /\ ~aborted
    /\ UNCHANGED oneshot
    /\ UNCHANGED <<lock, pipes>>
    /\ CanTickSec
    /\ now' = now + MsPerSec
    /\ last' = Ret("tick", 0, TRUE, "", <<>>)
    /\ UNCHANGED <<sessions, procs, nextId, nextPid, penv, files,
                   cleanupPending, envPending, aborted>>

\* A running shell exits on its own.  Nothing tells the registry: the
\* session keeps its TerminalProcess.
ProcExit(pid) ==
    /\ ~aborted
    /\ UNCHANGED oneshot
    /\ UNCHANGED <<lock, pipes>>
    /\ pid \in DOMAIN procs
    /\ procs[pid] = "running"
    /\ procs' = [procs EXCEPT ![pid] = "exited"]
    /\ last' = Ret("proc_exit", 0, TRUE, "", pid)
    /\ UNCHANGED <<sessions, nextId, nextPid, penv, now, files,
                   cleanupPending, envPending, aborted>>

\* Child::kill(): ends a running process; on one that is gone it returns an
\* error, which every caller drops (let _ =).
Kill(ps, pid) ==
    IF ps[pid] = "running" THEN [ps EXCEPT ![pid] = "killed"] ELSE ps

\* session.current_process.take() followed by kill() of what was taken.
KillOwned(ps, session) ==
    IF IsSome(session.current_process)
    THEN Kill(ps, Unwrap(session.current_process).process)
    ELSE ps

\* HashMap::remove
Remove(m, k) == [x \in DOMAIN m \ {k} |-> m[x]]

----------------------------------------------------------------------------
(* The handlers.                                                            *)

\* The environment of a new session with the HOME of the host process.
NewEnvironmentAmbientHome(working_dir) ==
    Insert(Insert(Insert(Insert(Insert(penv,
        TERM, TermDefault),
        LANG, LangDefault),
        PS1, Ps1Default),
        HISTSIZE, HistSizeDefault),
        HISTFILESIZE, HistFileSizeDefault)

\* The environment of a new session: env::vars(), then the six defaults.
NewEnvironment(working_dir) ==
    Insert(Insert(Insert(Insert(Insert(Insert(penv,
        TERM, TermDefault),
        LANG, LangDefault),
        HOME, working_dir),
        PS1, Ps1Default),
        HISTSIZE, HistSizeDefault),
        HISTFILESIZE, HistFileSizeDefault)

\* nativeCreateSession with an identifier that a session had before: the
\* least one that no session of the registry has now.
CreateSessionReusesId(working_dir, d) ==
    /\ ~aborted
    /\ UNCHANGED oneshot
    /\ WithLock
    /\ UNCHANGED pipes
    /\ nextId <= MaxSessions
    /\ d \in {0, 1}
    /\ d = 1 => CanTickMs
    /\ sessions' = Insert(sessions, CHOOSE i \in Ids \ DOMAIN sessions :
                                          \A j \in Ids \ DOMAIN sessions : i <= j,
            [working_directory |-> working_dir,
             environment |-> NewEnvironment(working_dir),
             current_process |-> None,
             history |-> <<>>,
             created_at |-> CurrentTimeMillis,
             last_activity |-> CurrentTimeMillis + d])
    /\ now' = now + d
    /\ nextId' = nextId + 1
    /\ last' = Ret("create_session", nextId, TRUE, "", nextId)
    /\ UNCHANGED <<procs, nextPid, penv, files, cleanupPending, envPending, aborted>>

\* nativeCreateSession.  The identifier is a random UUID, modelled as the next
\* unused number.  created_at and last_activity are two readings of the
\* clock: d is what passes between them.
CreateSession(working_dir, d) ==
    /\ ~aborted
    /\ UNCHANGED oneshot
    /\ WithLock
    /\ UNCHANGED pipes
    /\ nextId <= MaxSessions
    /\ d \in {0, 1}
    /\ d = 1 => CanTickMs
    /\ sessions' = Insert(sessions, nextId,
            [working_directory |-> working_dir,
             environment |-> NewEnvironment(working_dir),
             current_process |-> None,
             history |-> <<>>,
             created_at |-> CurrentTimeMillis,
             last_activity |-> CurrentTimeMillis + d])
    /\ now' = now + d
    /\ nextId' = nextId + 1
    /\ last' = Ret("create_session", nextId, TRUE, "", nextId)
    /\ UNCHANGED <<procs, nextPid, penv, files, cleanupPending, envPending, aborted>>

\* nativeCloseSession without the kill: the session is removed and its shell
\* runs on.
CloseSessionNoKill(id) ==
    /\ ~aborted
    /\ UNCHANGED oneshot
    /\ WithLock
    /\ UNCHANGED pipes
    /\ IF id \in DOMAIN sessions
       THEN /\ sessions' = Remove(sessions, id)
            /\ last' = Ret("close_session", id, TRUE, "", <<>>)
       ELSE /\ last' = Ret("close_session", id, FALSE, "", <<>>)
            /\ UNCHANGED sessions
    /\ UNCHANGED <<procs, nextId, nextPid, penv, now, files,
                   cleanupPending, envPending, aborted>>

\* nativeCloseSession
CloseSession(id) ==
    /\ ~aborted
    /\ UNCHANGED oneshot
    /\ WithLock
    /\ UNCHANGED pipes
    /\ IF id \in DOMAIN sessions
       THEN /\ procs' = KillOwned(procs, sessions[id])
            /\ sessions' = Remove(sessions, id)
            /\ last' = Ret("close_session", id, TRUE, "", <<>>)
       ELSE /\ last' = Ret("close_session", id, FALSE, "", <<>>)
            /\ UNCHANGED <<sessions, procs>>
    /\ UNCHANGED <<nextId, nextPid, penv, now, files, cleanupPending, envPending, aborted>>

\* nativeGetWorkingDirectory that counts as a use of the session.
GetWorkingDirectoryTouches(id) ==
    /\ ~aborted
    /\ UNCHANGED oneshot
    /\ WithLock
    /\ UNCHANGED pipes
    /\ last' = Ret("get_working_directory", id, TRUE, "",
                   IF id \in DOMAIN sessions
                   THEN sessions[id].working_directory
                   ELSE Root)
    /\ sessions' = IF id \in DOMAIN sessions
                   THEN [sessions EXCEPT ![id].last_activity = CurrentTimeMillis]
                   ELSE sessions
    /\ UNCHANGED <<procs, nextId, nextPid, penv, now, files,
                   cleanupPending, envPending, aborted>>

\* nativeGetWorkingDirectory
GetWorkingDirectory(id) ==
    /\ ~aborted
    /\ UNCHANGED oneshot
    /\ WithLock
    /\ UNCHANGED pipes
    /\ last' = Ret("get_working_directory", id, TRUE, "",
                   IF id \in DOMAIN sessions
                   THEN sessions[id].working_directory
                   ELSE Root)
    /\ UNCHANGED <<sessions, procs, nextId, nextPid, penv, now, files,
                   cleanupPending, envPending, aborted>>

\* nativeStopCommand that kills through a borrow (as_mut) instead of take():
\* the session keeps the handle.
StopCommandKeepsHandle(id) ==
    /\ ~aborted
    /\ UNCHANGED oneshot
    /\ WithLock
    /\ UNCHANGED pipes
    /\ IF id \in DOMAIN sessions /\ IsSome(sessions[id].current_process)
       THEN /\ procs' = KillOwned(procs, sessions[id])
            /\ sessions' = [sessions EXCEPT ![id].last_activity = CurrentTimeMillis]
            /\ last' = Ret("stop_command", id, TRUE, "", <<>>)
       ELSE /\ last' = Ret("stop_command", id, FALSE, "", <<>>)
            /\ UNCHANGED <<sessions, procs>>
    /\ UNCHANGED <<nextId, nextPid, penv, now, files, cleanupPending, envPending, aborted>>

\* nativeStopCommand
StopCommand(id) ==
    /\ ~aborted
    /\ UNCHANGED oneshot
    /\ WithLock
    /\ UNCHANGED pipes
    /\ IF id \in DOMAIN sessions /\ IsSome(sessions[id].current_process)
       THEN /\ procs' = KillOwned(procs, sessions[id])
            /\ sessions' = [sessions EXCEPT ![id].current_process = None,
                                            ![id].last_activity = CurrentTimeMillis]
            /\ last' = Ret("stop_command", id, TRUE, "", <<>>)
       ELSE /\ last' = Ret("stop_command", id, FALSE, "", <<>>)
            /\ UNCHANGED <<sessions, procs>>
    /\ UNCHANGED <<nextId, nextPid, penv, now, files, cleanupPending, envPending, aborted>>

\* nativeStartInteractiveShell without its check of current_process: the new
\* shell replaces the one the session owns.
StartInteractiveShellUnchecked(id, spawned) ==
    /\ ~aborted
    /\ UNCHANGED oneshot
    /\ WithLock
    /\ IF id \notin DOMAIN sessions
       THEN /\ last' = Ret("start_interactive_shell", id, FALSE, MsgNotFound, <<>>)
            /\ UNCHANGED <<sessions, procs, nextPid, pipes>>
       ELSE IF spawned
       THEN /\ IsDir(sessions[id].working_directory)
            /\ nextPid <= MaxProcs
            /\ procs' = Insert(procs, nextPid, "running")
            /\ nextPid' = nextPid + 1
            /\ sessions' = [sessions EXCEPT
                    ![id].current_process = Some([process |-> nextPid, stdin |-> TRUE]),
                    ![id].last_activity = CurrentTimeMillis]
            /\ pipes' = Insert(pipes, nextPid, NewPipes)
            /\ last' = Ret("start_interactive_shell", id, TRUE, MsgStarted, <<>>)
       ELSE /\ last' = Ret("start_interactive_shell", id, FALSE, MsgSpawnFailed, <<>>)
            /\ UNCHANGED <<sessions, procs, nextPid, pipes>>
    /\ UNCHANGED <<nextId, penv, now, files, cleanupPending, envPending, aborted>>

\* nativeStartInteractiveShell that gives up the session when the spawn fails.
StartInteractiveShellDropsSession(id, spawned) ==
    /\ ~aborted
    /\ UNCHANGED oneshot
    /\ WithLock
    /\ IF id \notin DOMAIN sessions
       THEN /\ last' = Ret("start_interactive_shell", id, FALSE, MsgNotFound, <<>>)
            /\ UNCHANGED <<sessions, procs, nextPid, pipes>>
       ELSE IF sessions[id].current_process # None
       THEN /\ last' = Ret("start_interactive_shell", id, FALSE, MsgAlreadyRunning, <<>>)
            /\ UNCHANGED <<sessions, procs, nextPid, pipes>>
       ELSE IF spawned
       THEN /\ IsDir(sessions[id].working_directory)
            /\ nextPid <= MaxProcs
            /\ procs' = Insert(procs, nextPid, "running")
            /\ nextPid' = nextPid + 1
            /\ sessions' = [sessions EXCEPT
                    ![id].current_process = Some([process |-> nextPid, stdin |-> TRUE]),
                    ![id].last_activity = CurrentTimeMillis]
            /\ pipes' = Insert(pipes, nextPid, NewPipes)
            /\ last' = Ret("start_interactive_shell", id, TRUE, MsgStarted, <<>>)
       ELSE /\ sessions' = Remove(sessions, id)
            /\ last' = Ret("start_interactive_shell", id, FALSE, MsgSpawnFailed, <<>>)
            /\ UNCHANGED <<procs, nextPid, pipes>>
    /\ UNCHANGED <<nextId, penv, now, files, cleanupPending, envPending, aborted>>

\* nativeStartInteractiveShell.  spawned: whether Command::spawn returns Ok;
\* it cannot when the session's working directory is no directory.
StartInteractiveShell(id, spawned) ==
    /\ ~aborted
    /\ UNCHANGED oneshot
    /\ WithLock
    /\ IF id \notin DOMAIN sessions
       THEN /\ last' = Ret("start_interactive_shell", id, FALSE, MsgNotFound, <<>>)
            /\ UNCHANGED <<sessions, procs, nextPid, pipes>>
       ELSE IF sessions[id].current_process # None
       THEN /\ last' = Ret("start_interactive_shell", id, FALSE, MsgAlreadyRunning, <<>>)
            /\ UNCHANGED <<sessions, procs, nextPid, pipes>>
       ELSE IF spawned
       THEN /\ IsDir(sessions[id].working_directory)
            /\ nextPid <= MaxProcs
            /\ procs' = Insert(procs, nextPid, "running")
            /\ nextPid' = nextPid + 1
            /\ sessions' = [sessions EXCEPT
                    ![id].current_process = Some([process |-> nextPid, stdin |-> TRUE]),
                    ![id].last_activity = CurrentTimeMillis]
            /\ pipes' = Insert(pipes, nextPid, NewPipes)
            /\ last' = Ret("start_interactive_shell", id, TRUE, MsgStarted, <<>>)
       ELSE /\ last' = Ret("start_interactive_shell", id, FALSE, MsgSpawnFailed, <<>>)
            /\ UNCHANGED <<sessions, procs, nextPid, pipes>>
    /\ UNCHANGED <<nextId, penv, now, files, cleanupPending, envPending, aborted>>

\* Child::try_wait() == Ok(None)
StillRunning(pid) == procs[pid] = "running"

\* nativeIsShellRunning
IsShellRunning(id) ==
    /\ ~aborted
    /\ UNCHANGED oneshot
    /\ WithLock
    /\ UNCHANGED pipes
    /\ last' = Ret("is_shell_running", id,
                   /\ id \in DOMAIN sessions
                   /\ IsSome(sessions[id].current_process)
                   /\ StillRunning(Unwrap(sessions[id].current_process).process),
                   "", <<>>)
    /\ UNCHANGED <<sessions, procs, nextId, nextPid, penv, now, files,
                   cleanupPending, envPending, aborted>>

\* writeln!(stdin, ..) on the pipe to the shell: the write fails (EPIPE) once
\* the shell is gone.
WriteSucceeds(pid) == procs[pid] = "running"

\* nativeSendInput that records the line before it looks at what the write
\* returned.
SendInputRecordsFirst(id, input) ==
    /\ ~aborted
    /\ UNCHANGED oneshot
    /\ WithLock
    /\ IF id \notin DOMAIN sessions
       THEN /\ last' = Ret("send_input", id, FALSE, MsgNotFound, <<>>)
            /\ UNCHANGED <<sessions, pipes>>
       ELSE IF sessions[id].current_process = None
       THEN /\ last' = Ret("send_input", id, FALSE, MsgNoShell, <<>>)
            /\ UNCHANGED <<sessions, pipes>>
       ELSE IF ~Unwrap(sessions[id].current_process).stdin
       THEN /\ last' = Ret("send_input", id, FALSE, MsgNoStdin, <<>>)
            /\ UNCHANGED <<sessions, pipes>>
       ELSE IF WriteSucceeds(Unwrap(sessions[id].current_process).process)
       THEN /\ Len(sessions[id].history) < MaxHist
            /\ Len(pipes[Unwrap(sessions[id].current_process).process].stdin) < MaxHist
            /\ sessions' = [sessions EXCEPT
                    ![id].history = Append(@, input),
                    ![id].last_activity = CurrentTimeMillis]
            /\ pipes' = [pipes EXCEPT
                    ![Unwrap(sessions[id].current_process).process].stdin = Append(@, input)]
            /\ last' = Ret("send_input", id, TRUE, MsgInputSent, input)
       ELSE /\ sessions' = [sessions EXCEPT
                    ![id].history = Append(@, input),
                    ![id].last_activity = CurrentTimeMillis]
            /\ last' = Ret("send_input", id, FALSE, MsgWriteFailed, <<>>)
            /\ UNCHANGED pipes
    /\ UNCHANGED <<procs, nextId, nextPid, penv, now, files,
                   cleanupPending, envPending, aborted>>

\* nativeSendInput that puts the line at the head of the history.
SendInputPrepends(id, input) ==
    /\ ~aborted
    /\ UNCHANGED oneshot
    /\ WithLock
    /\ IF id \notin DOMAIN sessions
       THEN /\ last' = Ret("send_input", id, FALSE, MsgNotFound, <<>>)
            /\ UNCHANGED <<sessions, pipes>>
       ELSE IF sessions[id].current_process = None
       THEN /\ last' = Ret("send_input", id, FALSE, MsgNoShell, <<>>)
            /\ UNCHANGED <<sessions, pipes>>
       ELSE IF ~Unwrap(sessions[id].current_process).stdin
       THEN /\ last' = Ret("send_input", id, FALSE, MsgNoStdin, <<>>)
            /\ UNCHANGED <<sessions, pipes>>
       ELSE IF WriteSucceeds(Unwrap(sessions[id].current_process).process)
       THEN /\ Len(sessions[id].history) < MaxHist
            /\ Len(pipes[Unwrap(sessions[id].current_process).process].stdin) < MaxHist
            /\ sessions' = [sessions EXCEPT
                    ![id].history = <<input>> \o @,
                    ![id].last_activity = CurrentTimeMillis]
            /\ pipes' = [pipes EXCEPT
                    ![Unwrap(sessions[id].current_process).process].stdin = Append(@, input)]
            /\ last' = Ret("send_input", id, TRUE, MsgInputSent, input)
       ELSE /\ last' = Ret("send_input", id, FALSE, MsgWriteFailed, <<>>)
            /\ UNCHANGED <<sessions, pipes>>
    /\ UNCHANGED <<procs, nextId, nextPid, penv, now, files,
                   cleanupPending, envPending, aborted>>

\* nativeSendInput
SendInput(id, input) ==
    /\ ~aborted
    /\ UNCHANGED oneshot
    /\ WithLock
    /\ IF id \notin DOMAIN sessions
       THEN /\ last' = Ret("send_input", id, FALSE, MsgNotFound, <<>>)
            /\ UNCHANGED <<sessions, pipes>>
       ELSE IF sessions[id].current_process = None
       THEN /\ last' = Ret("send_input", id, FALSE, MsgNoShell, <<>>)
            /\ UNCHANGED <<sessions, pipes>>
       ELSE IF ~Unwrap(sessions[id].current_process).stdin
       THEN /\ last' = Ret("send_input", id, FALSE, MsgNoStdin, <<>>)
            /\ UNCHANGED <<sessions, pipes>>
       ELSE IF WriteSucceeds(Unwrap(sessions[id].current_process).process)
       THEN /\ Len(sessions[id].history) < MaxHist
            /\ Len(pipes[Unwrap(sessions[id].current_process).process].stdin) < MaxHist
            /\ sessions' = [sessions EXCEPT
                    ![id].history = Append(@, input),
                    ![id].last_activity = CurrentTimeMillis]
            /\ pipes' = [pipes EXCEPT
                    ![Unwrap(sessions[id].current_process).process].stdin = Append(@, input)]
            /\ last' = Ret("send_input", id, TRUE, MsgInputSent, input)
       ELSE /\ last' = Ret("send_input", id, FALSE, MsgWriteFailed, <<>>)
            /\ UNCHANGED <<sessions, pipes>>
    /\ UNCHANGED <<procs, nextId, nextPid, penv, now, files,
                   cleanupPending, envPending, aborted>>

\* The directory nativeChangeDirectory resolves for a session (new_dir).
ResolveDirectory(session, directory) ==
    IF StartsWith(directory, <<"/">>)
    THEN directory
    ELSE IF directory = <<"~">> \/ directory = <<"$">> \o HOME
    THEN IF HOME \in DOMAIN session.environment
         THEN session.environment[HOME]
         ELSE Root
    ELSE IF StartsWith(directory, <<"~", "/">>) \/ StartsWith(directory, <<"$">> \o HOME \o <<"/">>)
    THEN IF HOME \in DOMAIN session.environment
         THEN LET rel_path == IF StartsWith(directory, <<"~", "/">>)
                              THEN SliceFrom(directory, 2)
                              ELSE SliceFrom(directory, 6)
              IN  Join(session.environment[HOME], rel_path)
         ELSE Root
    ELSE Join(session.working_directory, directory)

\* nativeChangeDirectory without the test of new_dir: the session moves to
\* whatever the target resolves to.
ChangeDirectoryUnchecked(id, directory) ==
    /\ ~aborted
    /\ UNCHANGED oneshot
    /\ WithLock
    /\ UNCHANGED pipes
    /\ IF id \in DOMAIN sessions
       THEN LET new_dir == ResolveDirectory(sessions[id], directory)
            IN  /\ sessions' = [sessions EXCEPT
                        ![id].working_directory = new_dir,
                        ![id].last_activity = CurrentTimeMillis]
                /\ last' = Ret("change_directory", id, TRUE, "",
                               [directory |-> directory, new_dir |-> new_dir])
       ELSE /\ last' = Ret("change_directory", id, FALSE, "",
                           [directory |-> directory, new_dir |-> None])
            /\ UNCHANGED sessions
    /\ UNCHANGED <<procs, nextId, nextPid, penv, now, files,
                   cleanupPending, envPending, aborted>>

\* nativeChangeDirectory that moves every session of the registry.
ChangeDirectoryOfAll(id, directory) ==
    /\ ~aborted
    /\ UNCHANGED oneshot
    /\ WithLock
    /\ UNCHANGED pipes
    /\ IF id \in DOMAIN sessions
       THEN LET new_dir == ResolveDirectory(sessions[id], directory)
            IN  IF IsDir(new_dir)
                THEN /\ sessions' = [s \in DOMAIN sessions |->
                            [sessions[s] EXCEPT
                                !.working_directory = new_dir,
                                !.last_activity = CurrentTimeMillis]]
                     /\ last' = Ret("change_directory", id, TRUE, "",
                                    [directory |-> directory, new_dir |-> new_dir])
                ELSE /\ last' = Ret("change_directory", id, FALSE, "",
                                    [directory |-> directory, new_dir |-> new_dir])
                     /\ UNCHANGED sessions
       ELSE /\ last' = Ret("change_directory", id, FALSE, "",
                           [directory |-> directory, new_dir |-> None])
            /\ UNCHANGED sessions
    /\ UNCHANGED <<procs, nextId, nextPid, penv, now, files,
                   cleanupPending, envPending, aborted>>

\* nativeChangeDirectory.  The resolved path is kept in what the handler
\* reports, next to the boolean it returns.
ChangeDirectory(id, directory) ==
    /\ ~aborted
    /\ UNCHANGED oneshot
    /\ WithLock
    /\ UNCHANGED pipes
    /\ IF id \in DOMAIN sessions
       THEN LET new_dir == ResolveDirectory(sessions[id], directory)
            IN  IF IsDir(new_dir)
                THEN /\ sessions' = [sessions EXCEPT
                            ![id].working_directory = new_dir,
                            ![id].last_activity = CurrentTimeMillis]
                     /\ last' = Ret("change_directory", id, TRUE, "",
                                    [directory |-> directory, new_dir |-> new_dir])
                ELSE /\ last' = Ret("change_directory", id, FALSE, "",
                                    [directory |-> directory, new_dir |-> new_dir])
                     /\ UNCHANGED sessions
       ELSE /\ last' = Ret("change_directory", id, FALSE, "",
                           [directory |-> directory, new_dir |-> None])
            /\ UNCHANGED sessions
    /\ UNCHANGED <<procs, nextId, nextPid, penv, now, files,
                   cleanupPending, envPending, aborted>>

\* env::set_var panics on a name that is empty or holds '='.
InvalidEnvName(name) ==
    name = <<>> \/ \E i \in 1 .. Len(name) : name[i] = "="

\* nativeSetEnvironmentVariable, up to the lock: env::set_var(name, value).
SetEnvVarWrite(name, value) ==
    /\ ~aborted
    /\ UNCHANGED oneshot
    /\ UNCHANGED <<lock, pipes>>
    /\ Cardinality(envPending) < MaxEnvCalls
    /\ IF InvalidEnvName(name)
       THEN /\ aborted' = TRUE
            /\ last' = Ret("panic", 0, FALSE, "env::set_var", <<>>)
            /\ UNCHANGED <<penv, envPending>>
       ELSE /\ penv' = Insert(penv, name, value)
            /\ envPending' = envPending \cup {[name |-> name, value |-> value]}
            /\ last' = Ret("set_var", 0, TRUE, "", [name |-> name, value |-> value])
            /\ UNCHANGED aborted
    /\ UNCHANGED <<sessions, procs, nextId, nextPid, now, files, cleanupPending>>

\* nativeSetEnvironmentVariable without its loop over the sessions.
SetEnvVarNoFanout(call) ==
    /\ ~aborted
    /\ UNCHANGED oneshot
    /\ WithLock
    /\ UNCHANGED pipes
    /\ call \in envPending
    /\ envPending' = envPending \ {call}
    /\ last' = Ret("set_env_var", 0, TRUE, "", call)
    /\ UNCHANGED <<sessions, procs, nextId, nextPid, penv, now, files,
                   cleanupPending, aborted>>

\* nativeSetEnvironmentVariable, under the lock: the update of every session.
SetEnvVarFanout(call) ==
    /\ ~aborted
    /\ UNCHANGED oneshot
    /\ WithLock
    /\ UNCHANGED pipes
    /\ call \in envPending
    /\ sessions' = [s \in DOMAIN sessions |->
                        [sessions[s] EXCEPT !.environment = Insert(@, call.name, call.value)]]
    /\ envPending' = envPending \ {call}
    /\ last' = Ret("set_env_var", 0, TRUE, "", call)
    /\ UNCHANGED <<procs, nextId, nextPid, penv, now, files, cleanupPending, aborted>>

\* [String]::join("\n")
RECURSIVE JoinLines(_)
JoinLines(history) ==
    IF history = <<>> THEN <<>>
    ELSE IF Len(history) = 1 THEN history[1]
    ELSE history[1] \o <<"\n">> \o JoinLines(Tail(history))

\* A line that ended in "\r\n" loses the "\r" too.
StripCr(line) ==
    IF line # <<>> /\ line[Len(line)] = "\r" THEN SubSeq(line, 1, Len(line) - 1) ELSE line

\* str::lines(): the pieces that end at each "\n", and what follows the last
\* one if it is not empty.
RECURSIVE SplitLines(_, _, _)
SplitLines(content, i, cur) ==
    IF i > Len(content)
    THEN IF cur = <<>> THEN <<>> ELSE <<cur>>
    ELSE IF content[i] = "\n"
         THEN <<StripCr(cur)>> \o SplitLines(content, i + 1, <<>>)
         ELSE SplitLines(content, i + 1, Append(cur, content[i]))

Lines(content) == SplitLines(content, 1, <<>>)

HistFile == "history.txt"
BadFile == "/n/history.txt"

\* fs::write succeeds: the file's directory exists.
CanWrite(file_path) == file_path # BadFile

\* nativeSaveCommandHistory
SaveCommandHistory(id, file_path) ==
    /\ ~aborted
    /\ UNCHANGED oneshot
    /\ WithLock
    /\ UNCHANGED pipes
    /\ IF id \in DOMAIN sessions /\ CanWrite(file_path)
       THEN /\ files' = Insert(files, file_path, JoinLines(sessions[id].history))
            /\ last' = Ret("save_command_history", id, TRUE, "", file_path)
       ELSE /\ last' = Ret("save_command_history", id, FALSE, "", file_path)
            /\ UNCHANGED files
    /\ UNCHANGED <<sessions, procs, nextId, nextPid, penv, now,
                   cleanupPending, envPending, aborted>>

\* nativeLoadCommandHistory that adds the lines of the file to the history.
LoadCommandHistoryAppends(id, file_path) ==
    /\ ~aborted
    /\ UNCHANGED oneshot
    /\ WithLock
    /\ UNCHANGED pipes
    /\ IF id \in DOMAIN sessions /\ file_path \in DOMAIN files
       THEN /\ sessions' = [sessions EXCEPT ![id].history = @ \o Lines(files[file_path])]
            /\ last' = Ret("load_command_history", id, TRUE, "", file_path)
       ELSE /\ last' = Ret("load_command_history", id, FALSE, "", file_path)
            /\ UNCHANGED sessions
    /\ UNCHANGED <<procs, nextId, nextPid, penv, now, files,
                   cleanupPending, envPending, aborted>>

\* nativeLoadCommandHistory
LoadCommandHistory(id, file_path) ==
    /\ ~aborted
    /\ UNCHANGED oneshot
    /\ WithLock
    /\ UNCHANGED pipes
    /\ IF id \in DOMAIN sessions /\ file_path \in DOMAIN files
       THEN /\ sessions' = [sessions EXCEPT ![id].history = Lines(files[file_path])]
            /\ last' = Ret("load_command_history", id, TRUE, "", file_path)
       ELSE /\ last' = Ret("load_command_history", id, FALSE, "", file_path)
            /\ UNCHANGED sessions
    /\ UNCHANGED <<procs, nextId, nextPid, penv, now, files,
                   cleanupPending, envPending, aborted>>

\* The comparison with >= for >.
IdleAtLeast(current_time, last_activity, max_idle_time_millis) ==
    IF current_time >= last_activity
    THEN current_time - last_activity >= max_idle_time_millis
    ELSE TRUE

\* idle_time > max_idle_time_millis, with idle_time = current_time -
\* session.last_activity in u64.  When last_activity is the later of the two
\* the difference wraps to 2^64 - (last_activity - current_time), which is
\* above every threshold the model passes.
IdleExceeds(current_time, last_activity, max_idle_time_millis) ==
    IF current_time >= last_activity
    THEN current_time - last_activity > max_idle_time_millis
    ELSE TRUE

\* nativeCleanupInactiveSessions, up to the lock: the reading of the clock.
\* One maintenance thread calls it.
CleanupSample ==
    /\ ~aborted
    /\ UNCHANGED oneshot
    /\ UNCHANGED <<lock, pipes>>
    /\ cleanupPending = {}
    /\ cleanupPending' = {CurrentTimeMillis}
    /\ last' = Ret("cleanup_sample", 0, TRUE, "", CurrentTimeMillis)
    /\ UNCHANGED <<sessions, procs, nextId, nextPid, penv, now, files, envPending, aborted>>

\* sessions_to_remove
SessionsToRemove(current_time, max_idle_time_millis) ==
    {id \in DOMAIN sessions :
        IdleExceeds(current_time, sessions[id].last_activity, max_idle_time_millis)}

\* The removal loop without its kill.
KillNone(ps, ids) == ps

RECURSIVE KillAll(_, _)
KillAll(ps, ids) ==
    IF ids = {} THEN ps
    ELSE LET id == CHOOSE x \in ids : TRUE
         IN  KillAll(KillOwned(ps, sessions[id]), ids \ {id})

\* nativeCleanupInactiveSessions, under the lock.  checked: the build checks
\* integer overflow, so that the subtraction panics instead of wrapping.
CleanupScan(current_time, max_idle_time_seconds, checked) ==
    /\ ~aborted
    /\ UNCHANGED oneshot
    /\ WithLock
    /\ UNCHANGED pipes
    /\ current_time \in cleanupPending
    /\ cleanupPending' = cleanupPending \ {current_time}
    /\ IF checked /\ \E id \in DOMAIN sessions : sessions[id].last_activity > current_time
       THEN /\ aborted' = TRUE
            /\ last' = Ret("panic", 0, FALSE, "attempt to subtract with overflow", <<>>)
            /\ UNCHANGED <<sessions, procs>>
       ELSE LET sessions_to_remove ==
                    SessionsToRemove(current_time, max_idle_time_seconds * MsPerSec)
            IN  /\ procs' = KillAll(procs, sessions_to_remove)
                /\ sessions' = [id \in DOMAIN sessions \ sessions_to_remove |-> sessions[id]]
                /\ last' = Ret("cleanup_inactive_sessions", 0, TRUE, "",
                               [current_time |-> current_time,
                                max_idle_time_seconds |-> max_idle_time_seconds,
                                removed_sessions |-> sessions_to_remove,
                                remaining_sessions |->
                                    Cardinality(DOMAIN sessions \ sessions_to_remove)])
                /\ UNCHANGED aborted
    /\ UNCHANGED <<nextId, nextPid, penv, now, files, envPending>>

\* nativeGetCommandHistory that answers for any id.
GetCommandHistoryOfAny(id) ==
    /\ ~aborted
    /\ UNCHANGED oneshot
    /\ WithLock
    /\ last' = IF id \in DOMAIN sessions
               THEN Ret("get_command_history", id, TRUE, "", sessions[id].history)
               ELSE Ret("get_command_history", id, TRUE, "", <<>>)
    /\ UNCHANGED <<sessions, procs, nextId, nextPid, penv, now, files,
                   cleanupPending, envPending, aborted, pipes>>

\* nativeGetCommandHistory
GetCommandHistory(id) ==
    /\ ~aborted
    /\ UNCHANGED oneshot
    /\ WithLock
    /\ last' = IF id \in DOMAIN sessions
               THEN Ret("get_command_history", id, TRUE, "", sessions[id].history)
               ELSE Ret("get_command_history", id, FALSE, MsgNotFound, <<>>)
    /\ UNCHANGED <<sessions, procs, nextId, nextPid, penv, now, files,
                   cleanupPending, envPending, aborted, pipes>>

\* A running shell emits a line on stdout or stderr.  A line is known by its
\* number on its stream; utf8: whether its bytes are valid UTF-8.
Emit(pid, stream, utf8) ==
    /\ ~aborted
    /\ UNCHANGED oneshot
    /\ pid \in DOMAIN procs
    /\ procs[pid] = "running"
    /\ Len(pipes[pid][stream].emitted) < MaxLines
    /\ pipes' = [pipes EXCEPT
            ![pid][stream].emitted = Append(@, [no |-> Len(@) + 1, utf8 |-> utf8])]
    /\ last' = Ret("emit", 0, TRUE, "", pid)
    /\ UNCHANGED <<sessions, procs, nextId, nextPid, penv, now, files,
                   cleanupPending, envPending, aborted, lock>>

\* The process whose streams a read_output call reads.
ReaderPid(L) == Unwrap(sessions[L.id].current_process).process

\* nativeReadOutput is inside read_line on L.stream, the lock held.
InReadLine(L, ps) ==
    /\ lock' = Some(L)
    /\ pipes' = ps
    /\ last' = Ret("read_line", L.id, TRUE, "", L.stream)
    /\ UNCHANGED sessions

\* nativeReadOutput after its two loops: last_activity, the result, the lock
\* dropped.
ReadOutputReturn(L, ps) ==
    /\ lock' = None
    /\ sessions' = [sessions EXCEPT ![L.id].last_activity = CurrentTimeMillis]
    /\ pipes' = [ps EXCEPT ![ReaderPid(L)].stdout.returned = @ \o L.stdout,
                           ![ReaderPid(L)].stderr.returned = @ \o L.stderr]
    /\ last' = Ret("read_output", L.id, TRUE, "", [stdout |-> L.stdout, stderr |-> L.stderr])

\* start_time.elapsed().as_millis() < timeout_ms
InBudget(L) == now - L.start_time < L.timeout_ms

\* The loop over stderr is entered: its own start_time, then the loop head.
EnterStderr(L, ps) ==
    LET M == [L EXCEPT !.stream = "stderr", !.start_time = now]
    IN  IF InBudget(M) THEN InReadLine(M, ps) ELSE ReadOutputReturn(M, ps)

\* The loop over L.stream is left (its condition fails, or break).
LeaveStream(L, ps) ==
    IF L.stream = "stdout" THEN EnterStderr(L, ps) ELSE ReadOutputReturn(L, ps)

\* The head of the while loop over L.stream.
LoopHead(L, ps) ==
    IF InBudget(L) THEN InReadLine(L, ps) ELSE LeaveStream(L, ps)

\* nativeReadOutput, from the lock to the first read_line that is called (or
\* to the return, when the budget allows no read).  The readers are there
\* whenever the process is: the shell is spawned with all three pipes.
ReadOutput(id, timeout_ms) ==
    /\ ~aborted
    /\ UNCHANGED oneshot
    /\ lock = None
    /\ IF id \notin DOMAIN sessions
       THEN /\ last' = Ret("read_output", id, FALSE, MsgNotFound, <<>>)
            /\ UNCHANGED <<sessions, lock, pipes>>
       ELSE IF sessions[id].current_process = None
       THEN /\ last' = Ret("read_output", id, FALSE, MsgNoShell, <<>>)
            /\ UNCHANGED <<sessions, lock, pipes>>
       ELSE LoopHead([id |-> id, timeout_ms |-> timeout_ms, stream |-> "stdout",
                      start_time |-> now, stdout |-> <<>>, stderr |-> <<>>], pipes)
    /\ UNCHANGED <<procs, nextId, nextPid, penv, now, files,
                   cleanupPending, envPending, aborted>>

\* A read_line that returns without a line when the budget of the call is
\* used up, although the shell runs and has emitted nothing more.
ReadLineGivesUp ==
    /\ ~aborted
    /\ UNCHANGED oneshot
    /\ lock # None
    /\ LET L == Unwrap(lock)
           s == pipes[ReaderPid(L)][L.stream]
       IN  IF s.read < Len(s.emitted)
           THEN LET line == s.emitted[s.read + 1]
                    ps == [pipes EXCEPT ![ReaderPid(L)][L.stream].read = @ + 1]
                IN  IF line.utf8
                    THEN LoopHead([L EXCEPT ![L.stream] = Append(@, line)], ps)
                    ELSE LeaveStream(L, ps)
           ELSE /\ procs[ReaderPid(L)] # "running" \/ ~InBudget(L)
                /\ LeaveStream(L, pipes)
    /\ UNCHANGED <<procs, nextId, nextPid, penv, now, files,
                   cleanupPending, envPending, aborted>>

\* A read_line of nativeReadOutput returns.  Ok(n): the next line of the
\* stream is consumed and pushed, and the loop goes on.  Err: the bytes of the
\* line are consumed, they are no UTF-8, nothing is pushed; break.  Ok(0):
\* nothing is left and the shell is gone; break.  While the shell runs and has
\* emitted nothing more, read_line does not return.
ReadLine ==
    /\ ~aborted
    /\ UNCHANGED oneshot
    /\ lock # None
    /\ LET L == Unwrap(lock)
           s == pipes[ReaderPid(L)][L.stream]
       IN  IF s.read < Len(s.emitted)
           THEN LET line == s.emitted[s.read + 1]
                    ps == [pipes EXCEPT ![ReaderPid(L)][L.stream].read = @ + 1]
                IN  IF line.utf8
                    THEN LoopHead([L EXCEPT ![L.stream] = Append(@, line)], ps)
                    ELSE LeaveStream(L, ps)
           ELSE /\ procs[ReaderPid(L)] # "running"
                /\ LeaveStream(L, pipes)
    /\ UNCHANGED <<procs, nextId, nextPid, penv, now, files,
                   cleanupPending, envPending, aborted>>

\* str::trim, on the blanks of the model.
RECURSIVE TrimStart(_)
TrimStart(s) ==
    IF s # <<>> /\ s[1] = " " THEN TrimStart(Tail(s)) ELSE s

RECURSIVE TrimEnd(_)
TrimEnd(s) ==
    IF s # <<>> /\ s[Len(s)] = " " THEN TrimEnd(SubSeq(s, 1, Len(s) - 1)) ELSE s

Trim(s) == TrimEnd(TrimStart(s))

Clear == <<"c", "l", "e", "a", "r">>
CdPrefix == <<"c", "d", " ">>

\* CommandOutput.  spawned is not a field of the struct: it records whether
\* the call started a process.
CommandOutput(success, error_output, exit_code, command, working_directory, spawned) ==
    [success |-> success, output |-> <<>>, error_output |-> error_output,
     exit_code |-> exit_code, command |-> command,
     working_directory |-> working_directory, timestamp |-> CurrentTimeMillis,
     spawned |-> spawned]

\* What becomes of a command handed to sh -c or su -c: the spawn fails, or
\* the process runs and ends with a status, or by a signal (no exit code).
Outcomes == {"spawn_failed", "exit_0", "exit_1", "signaled"}

\* The result of a command that was handed to a shell.
ShellOutput(outcome, failed_message, command, working_directory) ==
    CASE outcome = "spawn_failed" ->
            CommandOutput(FALSE, <<failed_message>>, -1, command, working_directory, FALSE)
      [] outcome = "exit_0" ->
            CommandOutput(TRUE, <<>>, 0, command, working_directory, TRUE)
      [] outcome = "exit_1" ->
            CommandOutput(FALSE, <<>>, 1, command, working_directory, TRUE)
      [] outcome = "signaled" ->
            CommandOutput(FALSE, <<>>, -1, command, working_directory, TRUE)

\* execute_command: the built-ins clear and cd, then sh -c.  The spawn fails
\* when working_dir is no directory.
execute_command(command, working_dir, outcome) ==
    IF Trim(command) = Clear
    THEN CommandOutput(TRUE, <<>>, 0, command, working_dir, FALSE)
    ELSE IF StartsWith(command, CdPrefix)
    THEN LET dir == Trim(SliceFrom(command, 3))
             path == IF StartsWith(dir, <<"/">>) THEN dir ELSE Join(working_dir, dir)
         IN  IF IsDir(path)
             THEN CommandOutput(TRUE, <<>>, 0, command, path, FALSE)
             ELSE CommandOutput(FALSE, << <<"cd: ">> \o dir \o MsgCdFailed >>, 1,
                                command, working_dir, FALSE)
    ELSE ShellOutput(IF IsDir(working_dir) THEN outcome ELSE "spawn_failed",
                     MsgExecFailed, command, working_dir)

\* nativeExecuteCommand that returns what execute_command gave it.
ExecuteCommandAsGiven(command, working_dir, outcome) ==
    /\ ~aborted
    /\ UNCHANGED oneshot
    /\ LET output == execute_command(command, working_dir, outcome)
       IN  last' = Ret("execute_command", 0, output.success, "",
                       [given |-> [command |-> command, working_dir |-> working_dir],
                        result |-> output])
    /\ UNCHANGED <<sessions, procs, nextId, nextPid, penv, now, files,
                   cleanupPending, envPending, aborted, lock, pipes>>

\* nativeExecuteCommand behind the SESSIONS lock.
ExecuteCommandLocked(command, working_dir, outcome) ==
    /\ ~aborted
    /\ UNCHANGED oneshot
    /\ WithLock
    /\ LET output == execute_command(command, working_dir, outcome)
           output_with_time == [output EXCEPT !.command = command,
                                              !.working_directory = working_dir,
                                              !.timestamp = CurrentTimeMillis]
       IN  last' = Ret("execute_command", 0, output_with_time.success, "",
                       [given |-> [command |-> command, working_dir |-> working_dir],
                        result |-> output_with_time])
    /\ UNCHANGED <<sessions, procs, nextId, nextPid, penv, now, files,
                   cleanupPending, envPending, aborted, pipes>>

\* nativeExecuteCommand: execute_command, then the command, the working
\* directory and the timestamp of the result are written over.  It takes no
\* lock and looks at no session; the process it may start is waited for and
\* gone when it returns.
ExecuteCommand(command, working_dir, outcome) ==
    /\ ~aborted
    /\ UNCHANGED oneshot
    /\ LET output == execute_command(command, working_dir, outcome)
           output_with_time == [output EXCEPT !.command = command,
                                              !.working_directory = working_dir,
                                              !.timestamp = CurrentTimeMillis]
       IN  last' = Ret("execute_command", 0, output_with_time.success, "",
                       [given |-> [command |-> command, working_dir |-> working_dir],
                        result |-> output_with_time])
    /\ UNCHANGED <<sessions, procs, nextId, nextPid, penv, now, files,
                   cleanupPending, envPending, aborted, lock, pipes>>

\* format!("su -c '{}'", command)
SuCommand(command) == <<"su -c '">> \o command \o <<"'">>

\* execute_root_command: su -c, at the root of the file system.
execute_root_command(command, outcome) ==
    ShellOutput(outcome, MsgRootExecFailed, SuCommand(command), Root)

\* nativeExecuteRootCommand
ExecuteRootCommand(command, outcome) ==
    /\ ~aborted
    /\ UNCHANGED oneshot
    /\ LET output == execute_root_command(command, outcome)
           output_with_time == [output EXCEPT !.command = SuCommand(command),
                                              !.working_directory = Root,
                                              !.timestamp = CurrentTimeMillis]
       IN  last' = Ret("execute_root_command", 0, output_with_time.success, "",
                       [given |-> [command |-> command],
                        result |-> output_with_time])
    /\ UNCHANGED <<sessions, procs, nextId, nextPid, penv, now, files,
                   cleanupPending, envPending, aborted, lock, pipes>>

\* What nativeGetSessionInfo and nativeListSessions report of a session.
SessionReport(id) ==
    LET session == sessions[id]
    IN  [session_id |-> id,
         working_directory |-> session.working_directory,
         process_running |->
             /\ IsSome(session.current_process)
             /\ StillRunning(Unwrap(session.current_process).process),
         history_size |-> Len(session.history),
         created_at |-> session.created_at,
         last_activity |-> session.last_activity,
         idle_time_seconds |-> (CurrentTimeMillis - session.last_activity) \div MsPerSec]

\* nativeGetSessionInfo
GetSessionInfo(id) ==
    /\ ~aborted
    /\ UNCHANGED oneshot
    /\ WithLock
    /\ last' = IF id \in DOMAIN sessions
               THEN Ret("get_session_info", id, TRUE, "", SessionReport(id))
               ELSE Ret("get_session_info", id, FALSE, MsgNotFound, <<>>)
    /\ UNCHANGED <<sessions, procs, nextId, nextPid, penv, now, files,
                   cleanupPending, envPending, aborted, pipes>>

\* nativeListSessions
ListSessions ==
    /\ ~aborted
    /\ UNCHANGED oneshot
    /\ WithLock
    /\ last' = Ret("list_sessions", 0, TRUE, "",
                   [id \in DOMAIN sessions |-> SessionReport(id)])
    /\ UNCHANGED <<sessions, procs, nextId, nextPid, penv, now, files,
                   cleanupPending, envPending, aborted, pipes>>

\* The steps of one execute_command or execute_root_command call that hands
\* its command to a shell: the child and the executor run side by side, with
\* a pipe for stdout and a pipe for stderr between them.  program is what the
\* command makes its process do: the streams it writes a line to, in order;
\* after the last write it exits with status 0, which closes both pipes.

\* Stdio::piped(): an empty pipe whose write end the child holds.
NewPipe == [buffered |-> 0, open |-> TRUE]

\* The executor reads stdout first when it has spawned the child.
ReadsFirst == "stdout"

\* Command::new("sh") or Command::new("su") ... .spawn() gave Ok(child); the
\* executor goes on to read the child's stdout.
ExecSpawn(op, program) ==
    /\ ~aborted
    /\ oneshot = None
    /\ oneshot' = Some([op |-> op, program |-> program, todo |-> program,
                        stdout |-> NewPipe, stderr |-> NewPipe,
                        reading |-> ReadsFirst, output_lines |-> 0, error_lines |-> 0,
                        exited |-> FALSE])
    /\ last' = Ret("spawn", 0, TRUE, "", [op |-> op, program |-> program])
    /\ UNCHANGED <<sessions, procs, nextId, nextPid, penv, now, files,
                   cleanupPending, envPending, aborted, lock, pipes>>

\* The child writes its next line.  The write waits while the pipe is full.
ChildWrite ==
    /\ ~aborted
    /\ IsSome(oneshot)
    /\ LET c == Unwrap(oneshot)
       IN  /\ c.todo # <<>>
           /\ c[Head(c.todo)].buffered < PipeCap
           /\ oneshot' = Some([c EXCEPT ![Head(c.todo)].buffered = @ + 1,
                                        !.todo = Tail(@)])
    /\ last' = Ret("child_write", 0, TRUE, "", <<>>)
    /\ UNCHANGED <<sessions, procs, nextId, nextPid, penv, now, files,
                   cleanupPending, envPending, aborted, lock, pipes>>

\* The child has written everything and exits: the write ends of both pipes
\* are closed.
ChildExit ==
    /\ ~aborted
    /\ IsSome(oneshot)
    /\ LET c == Unwrap(oneshot)
       IN  /\ c.todo = <<>>
           /\ ~c.exited
           /\ oneshot' = Some([c EXCEPT !.stdout.open = FALSE,
                                        !.stderr.open = FALSE,
                                        !.exited = TRUE])
    /\ last' = Ret("child_exit", 0, TRUE, "", <<>>)
    /\ UNCHANGED <<sessions, procs, nextId, nextPid, penv, now, files,
                   cleanupPending, envPending, aborted, lock, pipes>>

\* What the executor turns to when the stream it reads is at its end.
AfterStream(stream) == IF stream = "stdout" THEN "stderr" ELSE "wait"

\* Where the lines read from a stream are collected.
LinesOf(stream) == IF stream = "stdout" THEN "output_lines" ELSE "error_lines"

\* for line in reader.lines(): one turn of the loop over the stream the
\* executor reads.  It takes a line out of the pipe; with an empty pipe that
\* is closed the loop ends and the executor turns to the next stream; with an
\* empty pipe that is open the read waits.
ExecReadLines ==
    /\ ~aborted
    /\ IsSome(oneshot)
    /\ LET c == Unwrap(oneshot)
           stream == c.reading
       IN  /\ stream \in {"stdout", "stderr"}
           /\ IF c[stream].buffered > 0
              THEN oneshot' = Some([c EXCEPT ![stream].buffered = @ - 1,
                                             ![LinesOf(stream)] = @ + 1])
              ELSE /\ ~c[stream].open
                   /\ oneshot' = Some([c EXCEPT !.reading = AfterStream(stream)])
    /\ last' = Ret("read_lines", 0, TRUE, "", <<>>)
    /\ UNCHANGED <<sessions, procs, nextId, nextPid, penv, now, files,
                   cleanupPending, envPending, aborted, lock, pipes>>

\* child.wait() and the CommandOutput that is returned.
ExecWait ==
    /\ ~aborted
    /\ IsSome(oneshot)
    /\ LET c == Unwrap(oneshot)
       IN  /\ c.reading = "wait"
           /\ c.exited
           /\ last' = Ret(c.op, 0, TRUE, "",
                          [program |-> c.program, output |-> c.output_lines,
                           error_output |-> c.error_lines, exit_code |-> 0])
    /\ oneshot' = None
    /\ UNCHANGED <<sessions, procs, nextId, nextPid, penv, now, files,
                   cleanupPending, envPending, aborted, lock, pipes>>

----------------------------------------------------------------------------
(* Specifications.                                                          *)

WorkingDirs == {DirT}

\* The life of sessions and of their shells.
Next ==
    \/ \E wd \in WorkingDirs : CreateSession(wd, 0)
    \/ \E id \in Ids : CloseSession(id)
    \/ \E id \in Ids : GetWorkingDirectory(id)
    \/ \E id \in Ids : StopCommand(id)
    \/ \E id \in Ids, spawned \in BOOLEAN : StartInteractiveShell(id, spawned)
    \/ \E id \in Ids : IsShellRunning(id)
    \/ \E pid \in 1 .. MaxProcs : ProcExit(pid)
    \/ TickMs

Spec == Init /\ [][Next]_vars

MaxIdleInputs == {0, 1}

\* Idle reaping: sessions are created and used while the clock runs and the
\* maintenance thread calls cleanup.
NextReap ==
    \/ \E wd \in WorkingDirs : CreateSession(wd, 0)
    \/ \E id \in Ids : StartInteractiveShell(id, TRUE)
    \/ TickMs
    \/ TickSec
    \/ CleanupSample
    \/ \E t \in cleanupPending, m \in MaxIdleInputs, checked \in BOOLEAN :
            CleanupScan(t, m, checked)

SpecReap == Init /\ [][NextReap]_vars

CdWorkingDirs == {DirT, Root}

\* The targets of change_directory: absolute (a directory, and none), the
\* home forms, the forms with a remainder, relative ones, the empty target.
CdTargets ==
    { DirS, DirNope,
      <<"~">>, <<"$">> \o HOME,
      <<"~", "/", "s">>, <<"$">> \o HOME \o <<"/", "s">>,
      <<"~", "/", "/", "s">>,
      <<"s">>, <<"n">>, <<>> }

\* Directories: sessions change directory, HOME is changed under them.
NextCd ==
    \/ \E wd \in CdWorkingDirs : nextId <= CdSessions /\ CreateSession(wd, 0)
    \/ \E id \in Ids, directory \in CdTargets : ChangeDirectory(id, directory)
    \/ \E id \in Ids : GetWorkingDirectory(id)
    \/ SetEnvVarWrite(HOME, DirS)
    \/ \E call \in envPending : SetEnvVarFanout(call)
    \/ TickMs

SpecCd == Init /\ [][NextCd]_vars

EnvNameInputs == {FOO, HOME, <<>>}
EnvValueInputs == {<<"a">>, <<"b">>}

\* The environment: set_env_var calls race with each other and with
\* create_session.
NextEnv ==
    \/ \E wd \in WorkingDirs : CreateSession(wd, 0)
    \/ \E name \in EnvNameInputs, value \in EnvValueInputs : SetEnvVarWrite(name, value)
    \/ \E call \in envPending : SetEnvVarFanout(call)
    \/ \E id \in Ids : CloseSession(id)

SpecEnv == Init /\ [][NextEnv]_vars

InputLines == {<<>>, <<"a">>}
FilePaths == {HistFile, BadFile}

\* History: lines are sent to a shell, saved to a file and loaded from it.
NextHist ==
    \/ \E wd \in WorkingDirs : CreateSession(wd, 0)
    \/ \E id \in Ids : StartInteractiveShell(id, TRUE)
    \/ \E id \in Ids, input \in InputLines : SendInput(id, input)
    \/ \E id \in Ids, file_path \in FilePaths : SaveCommandHistory(id, file_path)
    \/ \E id \in Ids, file_path \in FilePaths : LoadCommandHistory(id, file_path)

SpecHist == Init /\ [][NextHist]_vars

Ls == <<"l", "s">>

Commands ==
    { <<"c", "d", " ", "/", "s">>, <<"c", "d", " ", "s">>, <<"c", "d", " ", " ", "s", " ">>,
      <<"c", "d", " ", "/", "n">>, <<"c", "d", " ">>, <<" ", "c", "l", "e", "a", "r">>,
      Ls }

\* Input to a shell: lines are sent while the shell runs and after it has
\* exited, and one-shot commands run beside them.
NextInput ==
    \/ \E wd \in WorkingDirs : nextId <= InputSessions /\ CreateSession(wd, 0)
    \/ \E id \in Ids : StartInteractiveShell(id, TRUE)
    \/ \E id \in Ids, input \in InputLines : SendInput(id, input)
    \/ \E pid \in 1 .. MaxProcs : ProcExit(pid)
    \/ \E command \in {<<"c", "d", " ", "/", "s">>, <<"l", "s">>}, wd \in WorkingDirs :
            ExecuteCommand(command, wd, "exit_0")
    \/ TickMs

SpecInput == Init /\ [][NextInput]_vars

ExecWorkingDirs == {DirT, Root}
RootCommands == {<<"i", "d">>}
ExecTimeouts == {1}

\* One-shot commands: they run while sessions are made, shells are started
\* and a read_output holds the lock until its shell has exited.
NextExec ==
    \/ \E command \in Commands, wd \in ExecWorkingDirs :
            ExecuteCommand(command, wd, "exit_0")
    \/ \E wd \in {DirT, DirNope}, outcome \in Outcomes : ExecuteCommand(Ls, wd, outcome)
    \/ \E command \in RootCommands, outcome \in Outcomes :
            ExecuteRootCommand(command, outcome)
    \/ \E wd \in WorkingDirs : nextId <= ExecSessions /\ CreateSession(wd, 0)
    \/ \E id \in Ids : StartInteractiveShell(id, TRUE)
    \/ \E id \in Ids, timeout_ms \in ExecTimeouts : ReadOutput(id, timeout_ms)
    \/ ReadLine
    \/ \E pid \in 1 .. MaxProcs : ProcExit(pid)
    \/ TickMs

SpecExec == Init /\ [][NextExec]_vars

LockTimeouts == {0, 1}

\* The lock: one session's read_output waits for its shell while calls are
\* made on the other session.
NextLock ==
    \/ \E wd \in WorkingDirs : CreateSession(wd, 0)
    \/ \E id \in Ids : StartInteractiveShell(id, TRUE)
    \/ \E id \in Ids, timeout_ms \in LockTimeouts : ReadOutput(id, timeout_ms)
    \/ ReadLine
    \/ \E id \in Ids : IsShellRunning(id)
    \/ \E id \in Ids : StopCommand(id)
    \/ \E id \in Ids : CloseSession(id)
    \/ \E pid \in 1 .. MaxProcs : ProcExit(pid)
    \/ TickMs

SpecLock == Init /\ [][NextLock]_vars

\* Creation: sessions are created while the clock runs, and closed.
NextCreate ==
    \/ \E wd \in CdWorkingDirs, d \in {0, 1} : CreateSession(wd, d)
    \/ \E id \in Ids : CloseSession(id)
    \/ \E id \in Ids : GetWorkingDirectory(id)
    \/ TickMs

SpecCreate == Init /\ [][NextCreate]_vars

\* Every operation that takes a session id, called with ids that are not in
\* the registry (never created, or closed), beside a session that has a
\* shell, a history and a saved history file.
NextUnknown ==
    \/ \E wd \in WorkingDirs : nextId <= UnknownSessions /\ CreateSession(wd, 0)
    \/ \E id \in Ids : CloseSession(id)
    \/ \E id \in Ids : StartInteractiveShell(id, TRUE)
    \/ \E id \in Ids : SendInput(id, <<"a">>)
    \/ \E id \in Ids : SaveCommandHistory(id, HistFile)
    \/ \E id \in Ids \ DOMAIN sessions : ChangeDirectory(id, DirS)
    \/ \E id \in Ids \ DOMAIN sessions : StopCommand(id)
    \/ \E id \in Ids \ DOMAIN sessions : IsShellRunning(id)
    \/ \E id \in Ids \ DOMAIN sessions : LoadCommandHistory(id, HistFile)
    \/ \E id \in Ids \ DOMAIN sessions : ReadOutput(id, 1)
    \/ \E id \in Ids \ DOMAIN sessions : GetCommandHistory(id)
    \/ \E id \in Ids \ DOMAIN sessions : GetWorkingDirectory(id)

SpecUnknown == Init /\ [][NextUnknown]_vars

\* Ownership: shells are started, exit, are stopped; their sessions are
\* closed and reaped.
NextOwn ==
    \/ \E wd \in WorkingDirs : CreateSession(wd, 0)
    \/ \E id \in Ids : StartInteractiveShell(id, TRUE)
    \/ \E id \in Ids : CloseSession(id)
    \/ \E id \in Ids : StopCommand(id)
    \/ \E pid \in 1 .. MaxProcs : ProcExit(pid)
    \/ TickSec
    \/ CleanupSample
    \/ \E t \in cleanupPending, m \in MaxIdleInputs, checked \in BOOLEAN :
            CleanupScan(t, m, checked)

SpecOwn == Init /\ [][NextOwn]_vars

ReadTimeouts == {0, 1, 2}
Streams == {"stdout", "stderr"}

\* Output: a shell emits lines on its two streams, some of them no UTF-8, and
\* exits; read_output is called with several budgets while the clock runs.
NextRead ==
    \/ \E wd \in WorkingDirs : nextId <= ReadSessions /\ CreateSession(wd, 0)
    \/ \E id \in Ids : StartInteractiveShell(id, TRUE)
    \/ \E pid \in 1 .. MaxProcs, stream \in Streams, utf8 \in BOOLEAN : Emit(pid, stream, utf8)
    \/ \E id \in Ids, timeout_ms \in ReadTimeouts : ReadOutput(id, timeout_ms)
    \/ ReadLine
    \/ \E pid \in 1 .. MaxProcs : ProcExit(pid)
    \/ TickMs

SpecRead == Init /\ [][NextRead]_vars

OneShotOps == {"execute_command", "execute_root_command"}
Programs == UNION {[1 .. n -> Streams] : n \in 0 .. MaxWrites}

\* One-shot execution, step by step: commands that write up to MaxWrites
\* lines to their two streams in any order are run, one after the other.
NextOneShot ==
    \/ \E op \in OneShotOps, program \in Programs : ExecSpawn(op, program)
    \/ ChildWrite
    \/ ChildExit
    \/ ExecReadLines
    \/ ExecWait

\* The child runs whenever it can, and so does the thread of the executor.
SpecOneShot ==
    /\ Init
    /\ [][NextOneShot]_vars
    /\ WF_vars(ChildWrite)
    /\ WF_vars(ChildExit)
    /\ WF_vars(ExecReadLines)
    /\ WF_vars(ExecWait)

\* History files: as NextHist, with fewer sessions.
NextLoad ==
    \/ \E wd \in WorkingDirs : nextId <= LoadSessions /\ CreateSession(wd, 0)
    \/ \E id \in Ids : StartInteractiveShell(id, TRUE)
    \/ \E id \in Ids, input \in InputLines : SendInput(id, input)
    \/ \E id \in Ids, file_path \in FilePaths : SaveCommandHistory(id, file_path)
    \/ \E id \in Ids, file_path \in FilePaths : LoadCommandHistory(id, file_path)

SpecLoad == Init /\ [][NextLoad]_vars

\* A blocked read: read_output waits for a shell that is silent while stop,
\* close and cleanup are called on both sessions.  The clock runs while the
\* call holds the lock, and the shell that is read from emits its first line
\* or exits during the call.  read_output is called on the session that was
\* created last.
NextBlocked ==
    \/ \E wd \in WorkingDirs : nextId <= BlockedSessions /\ CreateSession(wd, 0)
    \/ \E id \in Ids : StartInteractiveShell(id, TRUE)
    \/ \E id \in Ids : id = nextId - 1 /\ ReadOutput(id, 1)
    \/ ReadLine
    \/ /\ lock # None
       /\ pipes[ReaderPid(Unwrap(lock))].stdout.emitted = <<>>
       /\ Emit(ReaderPid(Unwrap(lock)), "stdout", TRUE)
    \/ lock # None /\ ProcExit(ReaderPid(Unwrap(lock)))
    \/ \E id \in Ids : StopCommand(id)
    \/ \E id \in Ids : CloseSession(id)
    \/ CleanupSample
    \/ \E current_time \in cleanupPending : CleanupScan(current_time, 0, FALSE)
    \/ lock # None /\ TickMs

SpecBlocked == Init /\ [][NextBlocked]_vars

\* Activity: every handler is called on a session, and those that can fail
\* are called where they fail (no such directory, no shell, a spawn that
\* fails, no file, an id that is not there), while the clock runs and cleanup
\* is called.  read_output is called with no budget, so that it returns
\* without a read.
NextActivity ==
    \/ \E wd \in WorkingDirs : nextId <= ActivitySessions /\ CreateSession(wd, 0)
    \/ \E id \in DOMAIN sessions, directory \in {DirS, DirNope} : ChangeDirectory(id, directory)
    \/ \E id \in DOMAIN sessions, spawned \in BOOLEAN :
            nextPid <= ActivitySessions /\ StartInteractiveShell(id, spawned)
    \/ \E id \in DOMAIN sessions : SendInput(id, <<"a">>)
    \/ \E id \in Ids : StopCommand(id)
    \/ \E id \in DOMAIN sessions : ReadOutput(id, 0)
    \/ \E id \in DOMAIN sessions : GetWorkingDirectory(id)
    \/ \E id \in DOMAIN sessions : IsShellRunning(id)
    \/ \E id \in DOMAIN sessions : GetCommandHistory(id)
    \/ \E id \in DOMAIN sessions : SaveCommandHistory(id, HistFile)
    \/ \E id \in DOMAIN sessions : LoadCommandHistory(id, HistFile)
    \/ \E id \in DOMAIN sessions : GetSessionInfo(id)
    \/ ListSessions
    \/ SetEnvVarWrite(FOO, <<"a">>)
    \/ \E call \in envPending : SetEnvVarFanout(call)
    \/ TickSec
    \/ CleanupSample
    \/ \E t \in cleanupPending, checked \in BOOLEAN : CleanupScan(t, 0, checked)

SpecActivity == Init /\ [][NextActivity]_vars

\* The identifiers that were handed out and are not in the registry.
Removed == (1 .. nextId - 1) \ DOMAIN sessions

\* Closed sessions: sessions are created, given a shell, closed and reaped,
\* and every handler that takes an id is called with the id of a session
\* that is gone.
NextClosed ==
    \/ \E wd \in WorkingDirs : nextId <= ClosedSessions /\ CreateSession(wd, 0)
    \/ \E id \in DOMAIN sessions : StartInteractiveShell(id, TRUE)
    \/ \E id \in Ids : CloseSession(id)
    \/ TickSec
    \/ CleanupSample
    \/ \E t \in cleanupPending : CleanupScan(t, 0, FALSE)
    \/ \E id \in Removed : StartInteractiveShell(id, TRUE)
    \/ \E id \in Removed : SendInput(id, <<"a">>)
    \/ \E id \in Removed : ChangeDirectory(id, DirS)
    \/ \E id \in Removed : StopCommand(id)
    \/ \E id \in Removed : IsShellRunning(id)
    \/ \E id \in Removed : GetWorkingDirectory(id)
    \/ \E id \in Removed : GetCommandHistory(id)
    \/ \E id \in Removed : SaveCommandHistory(id, HistFile)
    \/ \E id \in Removed : LoadCommandHistory(id, HistFile)
    \/ \E id \in Removed : ReadOutput(id, 1)
    \/ \E id \in Removed : GetSessionInfo(id)

SpecClosed == Init /\ [][NextClosed]_vars

\* Isolation: two sessions are used side by side, each with one shell and
\* one line of input, and set_env_var is called between.  read_output is
\* called with no budget, so that it returns without a read.
NextIsolation ==
    \/ \E wd \in WorkingDirs : nextId <= IsolationSessions /\ CreateSession(wd, 0)
    \/ \E id \in DOMAIN sessions : ChangeDirectory(id, DirS)
    \/ \E id \in DOMAIN sessions :
            nextPid <= IsolationSessions /\ StartInteractiveShell(id, TRUE)
    \/ \E id \in DOMAIN sessions : sessions[id].history = <<>> /\ SendInput(id, <<"a">>)
    \/ \E id \in DOMAIN sessions : ReadOutput(id, 0)
    \/ \E id \in DOMAIN sessions : StopCommand(id)
    \/ \E id \in DOMAIN sessions : SaveCommandHistory(id, HistFile)
    \/ \E id \in DOMAIN sessions : LoadCommandHistory(id, HistFile)
    \/ \E id \in DOMAIN sessions : CloseSession(id)
    \/ SetEnvVarWrite(FOO, <<"a">>)
    \/ \E call \in envPending : SetEnvVarFanout(call)

SpecIsolation == Init /\ [][NextIsolation]_vars

----------------------------------------------------------------------------
(* The claims.  A step is known by what it leaves in last: every action     *)
(* writes its own name there, so a step that changes anything and ends      *)
(* with last.op = "x" is a step of handler x.                               *)

Called(op, id) == last'.op = op /\ last'.id = id

Owns(id) == id \in DOMAIN sessions /\ IsSome(sessions[id].current_process)
OwnedPid(id) == Unwrap(sessions[id].current_process).process

\* Every session but id is in the registry afterwards, as it was.
OthersUnchanged(id) ==
    \A o \in DOMAIN sessions \ {id} : o \in DOMAIN sessions' /\ sessions'[o] = sessions[o]

\* Every process but pid is as it was.
OtherProcsUnchanged(pid) ==
    /\ DOMAIN procs' = DOMAIN procs
    /\ \A q \in DOMAIN procs \ {pid} : procs'[q] = procs[q]

\* No process is owned by two sessions, and what a session owns is a process
\* that was spawned.
ProcessOwnership ==
    \A a \in DOMAIN sessions :
        Owns(a) =>
            /\ OwnedPid(a) \in DOMAIN procs
            /\ \A b \in DOMAIN sessions \ {a} : Owns(b) => OwnedPid(b) # OwnedPid(a)

\* A start_interactive_shell on a session that owns a process is refused and
\* changes nothing.
SecondStartRejected ==
    \A id \in Ids :
        Called("start_interactive_shell", id) /\ Owns(id) =>
            /\ ~last'.ok
            /\ last'.msg = MsgAlreadyRunning
            /\ UNCHANGED <<sessions, procs, nextPid, penv, now, files>>

\* C1: in every reachable state a session owns at most one process, which no
\* other session owns; start_interactive_shell on a session that owns a
\* process returns success = false ("already running") and leaves the
\* registry and the processes as they were: the first process stays owned,
\* in the state it was in, and the session's cwd, environment, history and
\* last_activity are unchanged.
C1_SecondStartRejected ==
    [](ProcessOwnership) /\ [][SecondStartRejected]_vars

\* A second start was refused on a session whose shell runs.
C1_Witness ==
    /\ last.op = "start_interactive_shell"
    /\ last.msg = MsgAlreadyRunning
    /\ Owns(last.id)
    /\ procs[OwnedPid(last.id)] = "running"

\* C2: start_interactive_shell is refused as "already running" only while
\* the session owns a live process; once the shell has exited on its own a
\* new start succeeds.  (A refused start changes nothing, so the process the
\* session owns afterwards is the one it owned when the call was made.)
C2_RejectedOnlyWhileLive ==
    last.op = "start_interactive_shell" /\ last.msg = MsgAlreadyRunning =>
        /\ Owns(last.id)
        /\ procs[OwnedPid(last.id)] = "running"

\* What close_session does to a session in the registry, and to an id that is
\* not in it.
CloseSessionEffect ==
    \A id \in Ids :
        Called("close_session", id) =>
            IF id \in DOMAIN sessions
            THEN /\ last'.ok
                 /\ id \notin DOMAIN sessions'
                 /\ DOMAIN sessions' = DOMAIN sessions \ {id}
                 /\ OthersUnchanged(id)
                 /\ IF Owns(id)
                    THEN /\ procs'[OwnedPid(id)] # "running"
                         /\ OtherProcsUnchanged(OwnedPid(id))
                    ELSE procs' = procs
            ELSE /\ ~last'.ok
                 /\ UNCHANGED <<sessions, procs>>

\* get_working_directory on an id that is not in the registry returns "/".
UnknownWorkingDirectory ==
    last.op = "get_working_directory" /\ last.id \notin DOMAIN sessions =>
        last.out = Root

\* C3: close_session(id) on a session in the registry kills the process it
\* owns, removes the session and returns true, after which
\* get_working_directory(id) returns "/"; on an id that is not in the
\* registry it returns false and changes no session and no process.
C3_CloseSession ==
    [](UnknownWorkingDirectory) /\ [][CloseSessionEffect]_vars

\* The working directory of a closed session was asked for, after its shell
\* was killed by the close.
C3_Witness ==
    /\ last.op = "get_working_directory"
    /\ last.id < nextId
    /\ last.id \notin DOMAIN sessions
    /\ last.out = Root
    /\ \E pid \in DOMAIN procs :
            /\ procs[pid] = "killed"
            /\ \A s \in DOMAIN sessions : ~(Owns(s) /\ OwnedPid(s) = pid)

\* What stop_command does to a session that owns a process, and otherwise.
StopCommandEffect ==
    \A id \in Ids :
        Called("stop_command", id) =>
            IF Owns(id)
            THEN /\ last'.ok
                 /\ sessions' = [sessions EXCEPT ![id].current_process = None,
                                                 ![id].last_activity = now]
                 /\ procs'[OwnedPid(id)] # "running"
                 /\ OtherProcsUnchanged(OwnedPid(id))
            ELSE /\ ~last'.ok
                 /\ UNCHANGED <<sessions, procs>>

\* is_shell_running right after a stop_command that returned true.
StoppedThenNotRunning ==
    last.op = "stop_command" /\ last.ok /\ Called("is_shell_running", last.id) => ~last'.ok

\* C10: stop_command(id) on a session that owns a process kills it, drops the
\* handle, sets last_activity to the time of the call and returns true, and
\* an is_shell_running(id) that follows returns false; on a session that owns
\* no process, or an id that is not in the registry, it returns false and
\* changes nothing.
C10_StopCommand ==
    [][StopCommandEffect /\ StoppedThenNotRunning]_vars

\* A running shell was stopped, later than the session's last activity
\* before, and is_shell_running was asked next.
C10_Witness ==
    /\ last.op = "is_shell_running"
    /\ ~last.ok
    /\ last.id \in DOMAIN sessions
    /\ sessions[last.id].current_process = None
    /\ sessions[last.id].last_activity > sessions[last.id].created_at
    /\ \E pid \in DOMAIN procs : procs[pid] = "killed"

\* What a cleanup call that returned reports.
CleanupReturned == last'.op = "cleanup_inactive_sessions"
CleanupOut == last'.out

\* The sessions a cleanup removed lost their shells, the others are as they
\* were, and the report says which were removed and how many are left.
CleanupReport ==
    /\ DOMAIN sessions' \subseteq DOMAIN sessions
    /\ \A id \in DOMAIN sessions' : sessions'[id] = sessions[id]
    /\ \A id \in DOMAIN sessions \ DOMAIN sessions' :
            Owns(id) => procs'[OwnedPid(id)] # "running"
    /\ \A id \in DOMAIN sessions' :
            Owns(id) => procs'[OwnedPid(id)] = procs[OwnedPid(id)]
    /\ CleanupOut.removed_sessions = DOMAIN sessions \ DOMAIN sessions'
    /\ CleanupOut.remaining_sessions = Cardinality(DOMAIN sessions')

\* C4 as the spec states it: cleanup_inactive_sessions(0) leaves no session,
\* whatever the sessions' last_activity, and reports remaining == 0.  (The
\* scan runs under the lock, so no session is created while it runs.)
C4_ZeroRemovesAll ==
    last.op = "cleanup_inactive_sessions" /\ last.out.max_idle_time_seconds = 0 =>
        /\ DOMAIN sessions = {}
        /\ last.out.remaining_sessions = 0

\* C4, amended: a cleanup_inactive_sessions(0) that returns has removed
\* exactly the sessions whose last_activity differs from the time the call
\* read before it took the lock, and killed their shells; a session whose
\* last_activity equals that time is kept as it was (its idle time is 0, and
\* 0 > 0 is false), and remaining is the number of sessions kept.
C4_ZeroKeepsJustActive ==
    [][CleanupReturned /\ CleanupOut.max_idle_time_seconds = 0 =>
            /\ DOMAIN sessions' =
                    {id \in DOMAIN sessions :
                        sessions[id].last_activity = CleanupOut.current_time}
            /\ CleanupReport]_vars

\* A cleanup(0) removed a session with a shell and kept another one.
C4_Witness ==
    /\ last.op = "cleanup_inactive_sessions"
    /\ last.out.max_idle_time_seconds = 0
    /\ last.out.removed_sessions # {}
    /\ last.out.remaining_sessions = 1
    /\ DOMAIN sessions # {}
    /\ \E pid \in DOMAIN procs : procs[pid] = "killed"

\* C5: cleanup_inactive(max_idle) removes exactly the sessions whose
\* now - last_activity > max_idle, now being the time the call read, and
\* kills the shell of each; every other session is kept as it was; the
\* removed ids and the remaining count split the sessions there were.
C5_CleanupExact ==
    [][CleanupReturned =>
            /\ DOMAIN sessions' =
                    {id \in DOMAIN sessions :
                        ~(CleanupOut.current_time - sessions[id].last_activity
                            > CleanupOut.max_idle_time_seconds * MsPerSec)}
            /\ CleanupReport]_vars

\* A change_directory changes a session only if it returns true, and then
\* only the working directory, to a directory that exists, and last_activity.
ChangeDirectoryEffect ==
    \A id \in Ids :
        Called("change_directory", id) =>
            /\ last'.ok =>
                    /\ id \in DOMAIN sessions
                    /\ IsDir(last'.out.new_dir)
                    /\ sessions' = [sessions EXCEPT
                            ![id].working_directory = last'.out.new_dir,
                            ![id].last_activity = now]
            /\ ~last'.ok => UNCHANGED sessions
            /\ id \in DOMAIN sessions /\ ~IsDir(last'.out.new_dir) => ~last'.ok
            /\ id \notin DOMAIN sessions => ~last'.ok

\* get_working_directory right after a change_directory that returned false.
FailedThenSameDirectory ==
    \A id \in DOMAIN sessions :
        /\ last.op = "change_directory" /\ last.id = id /\ ~last.ok
        /\ Called("get_working_directory", id)
        => last'.out = sessions[id].working_directory

\* C6: change_directory(id, target) changes the session only when the
\* resolved path exists and is a directory; when it does not, or the id is
\* not in the registry, the call returns false and leaves the working
\* directory and last_activity as they were, so that get_working_directory
\* returns what it returned before.
C6_ChangeDirectory ==
    [][ChangeDirectoryEffect /\ FailedThenSameDirectory]_vars

\* A change_directory to a path that does not exist failed, on a session
\* that had changed directory before and at an earlier time.
C6_Witness ==
    /\ last.op = "change_directory"
    /\ ~last.ok
    /\ last.out.directory = DirNope
    /\ last.id \in DOMAIN sessions
    /\ sessions[last.id].working_directory # sessions[last.id].environment[HOME]
    /\ sessions[last.id].last_activity < now

\* The resolver the spec describes: the base for the home forms is the
\* session's HOME entry, or the root; a remainder goes under that base, any
\* other target under the working directory.
HomeBase(session) ==
    IF HOME \in DOMAIN session.environment THEN session.environment[HOME] ELSE Root

Under(base, rest) == base \o <<"/">> \o rest

ReferenceResolve(session, directory) ==
    IF StartsWith(directory, <<"/">>) THEN directory
    ELSE IF directory = <<"~">> \/ directory = <<"$">> \o HOME THEN HomeBase(session)
    ELSE IF StartsWith(directory, <<"~", "/">>)
    THEN Under(HomeBase(session), SliceFrom(directory, 2))
    ELSE IF StartsWith(directory, <<"$">> \o HOME \o <<"/">>)
    THEN Under(HomeBase(session), SliceFrom(directory, 6))
    ELSE Under(session.working_directory, directory)

\* Two paths name one directory.
SameDirectory(a, b) ==
    IsAbsolute(a) = IsAbsolute(b) /\ Components(a) = Components(b)

\* C7: the path change_directory resolves is the one the reference resolver
\* gives, for every target: a target that starts with '/' as it is; '~' or
\* '$HOME' the session's HOME entry (the root if unset); '~/rest' or
\* '$HOME/rest' rest under that base; any other target under the session's
\* working directory.
C7_ResolvesAsReference ==
    [][\A id \in DOMAIN sessions :
            Called("change_directory", id) =>
                SameDirectory(last'.out.new_dir,
                              ReferenceResolve(sessions[id], last'.out.directory))]_vars

\* When set_env_var(name, value) returns, every session there is maps name
\* to value.
SetEnvVarReachesSessions ==
    last'.op = "set_env_var" =>
        /\ DOMAIN sessions' = DOMAIN sessions
        /\ \A id \in DOMAIN sessions :
                /\ last'.out.name \in DOMAIN sessions'[id].environment
                /\ sessions'[id].environment[last'.out.name] = last'.out.value

\* C8 as the spec states it, for the session created right after
\* set_env_var(name, value) has returned: the sessions there were map name
\* to value, and the new session does too, for any name.
C8_EveryNameObserved ==
    [][/\ SetEnvVarReachesSessions
       /\ last.op = "set_env_var" /\ last'.op = "create_session" =>
            sessions'[last'.id].environment[last.out.name] = last.out.value]_vars

\* The default create_session gives one of its six names.
DefaultValue(name, working_dir) ==
    CASE name = TERM -> TermDefault
      [] name = LANG -> LangDefault
      [] name = HOME -> working_dir
      [] name = PS1 -> Ps1Default
      [] name = HISTSIZE -> HistSizeDefault
      [] name = HISTFILESIZE -> HistFileSizeDefault

\* A new session has the six defaults, and for every other name what the
\* process-wide environment holds when it is created, which is what the
\* last env::set_var of that name wrote.
NewSessionEnvironment ==
    last'.op = "create_session" =>
        LET new == sessions'[last'.id]
        IN  /\ DOMAIN new.environment = DOMAIN penv \cup DefaultNames
            /\ \A name \in DefaultNames :
                    new.environment[name] = DefaultValue(name, new.working_directory)
            /\ \A name \in DOMAIN penv \ DefaultNames :
                    new.environment[name] = penv[name]

\* env::set_var(name, value) leaves name = value in the process-wide
\* environment.
SetVarWritten ==
    last'.op = "set_var" =>
        /\ last'.out.name \in DOMAIN penv'
        /\ penv'[last'.out.name] = last'.out.value

\* C8, amended: when set_env_var(name, value) returns, every session there
\* is maps name to value.  A session created afterwards gets create_session's
\* own default for TERM, LANG, HOME (its working directory), PS1, HISTSIZE
\* and HISTFILESIZE, whatever was set; for any other name it gets what the
\* process-wide environment holds, which is value unless another
\* set_env_var of that name wrote the process-wide environment after this
\* call did.
C8_ObservedButDefaults ==
    [][/\ SetEnvVarReachesSessions
       /\ SetVarWritten
       /\ NewSessionEnvironment
       /\ last.op = "set_env_var" /\ last'.op = "create_session" =>
            LET name == last.out.name
                new == sessions'[last'.id]
            IN  IF name \in DefaultNames
                THEN new.environment[name] = DefaultValue(name, new.working_directory)
                ELSE penv[name] = last.out.value =>
                        new.environment[name] = last.out.value]_vars

\* A session was created after FOO and HOME were set: it and an older
\* session hold the FOO that was set, and its HOME is its working directory,
\* not the HOME that was set.
C8_Witness ==
    /\ last.op = "create_session"
    /\ envPending = {}
    /\ FOO \in DOMAIN penv
    /\ penv[HOME] # Root
    /\ sessions[last.id].environment[FOO] = penv[FOO]
    /\ sessions[last.id].environment[HOME] = DirT
    /\ sessions[last.id].environment[HOME] # penv[HOME]
    /\ \E id \in DOMAIN sessions \ {last.id} :
            /\ sessions[id].environment[FOO] = penv[FOO]
            /\ sessions[id].environment[HOME] = penv[HOME]

\* A session that has sent nothing and owns no shell.
Fresh(session) ==
    session.history = <<>> /\ session.current_process = None

\* C9: the history a session saved to a file, loaded from that file into a
\* fresh session, is the history that was saved: same lines, same order,
\* empty lines and the empty history included.
C9_HistoryRoundTrip ==
    [][\A a, b \in DOMAIN sessions :
            /\ last.op = "save_command_history" /\ last.id = a /\ last.ok
            /\ b # a /\ Fresh(sessions[b])
            /\ Called("load_command_history", b) /\ last'.ok /\ last'.out = last.out
            => sessions'[b].history = sessions[a].history]_vars

\* What send_input does: it succeeds when the line went into the stdin of
\* the process the session owns, and then the line is the last of the
\* history and last_activity is the time of the call; when it fails nothing
\* of the registry changes.
SendInputEffect ==
    \A id \in Ids :
        Called("send_input", id) =>
            IF last'.ok
            THEN /\ Owns(id)
                 /\ pipes' = [pipes EXCEPT ![OwnedPid(id)].stdin = Append(@, last'.out)]
                 /\ sessions' = [sessions EXCEPT
                        ![id].history = Append(@, last'.out),
                        ![id].last_activity = now]
            ELSE /\ UNCHANGED <<sessions, pipes>>
                 /\ \/ id \notin DOMAIN sessions /\ last'.msg = MsgNotFound
                    \/ id \in DOMAIN sessions /\ ~Owns(id) /\ last'.msg = MsgNoShell
                    \/ Owns(id) /\ ~Unwrap(sessions[id].current_process).stdin
                            /\ last'.msg = MsgNoStdin
                    \/ Owns(id) /\ procs[OwnedPid(id)] # "running"
                            /\ last'.msg = MsgWriteFailed

\* C11: send_input appends the line to the history and sets last_activity
\* exactly when the write to the stdin of the owned process succeeds; for an
\* unknown session, a session without process or stdin, or a failed write, it
\* returns success = false and changes neither history nor last_activity.
C11_SendInput ==
    [][SendInputEffect]_vars

\* A write failed on a session that had sent a line before, at a later time
\* than that line's: the history and last_activity are still those of the
\* line that went through.
C11_Witness ==
    /\ last.op = "send_input"
    /\ last.msg = MsgWriteFailed
    /\ Len(sessions[last.id].history) = 1
    /\ sessions[last.id].last_activity < now

\* The directory "cd <dir>" names, seen from working_dir.
CdTarget(command, working_dir) ==
    LET dir == Trim(SliceFrom(command, 3))
    IN  IF IsAbsolute(dir) THEN dir ELSE working_dir \o <<"/">> \o dir

\* C12: execute_command("cd <dir>", working_dir) spawns no process; when
\* <dir>, resolved against working_dir, is a directory, the result the caller
\* gets is a success whose working directory is that directory, not the
\* working_dir passed in; when it is none, the result is a failure with exit
\* code 1 and stderr "cd: <dir>: No such file or directory".
C12_CdReturnsNewDirectory ==
    [][Called("execute_command", 0) /\ StartsWith(last'.out.given.command, CdPrefix) =>
        LET given == last'.out.given
            result == last'.out.result
            dir == Trim(SliceFrom(given.command, 3))
            target == CdTarget(given.command, given.working_dir)
        IN  /\ ~result.spawned
            /\ IF IsDir(target)
               THEN /\ result.success
                    /\ Components(result.working_directory) = Components(target)
               ELSE /\ ~result.success
                    /\ result.exit_code = 1
                    /\ result.error_output = << <<"cd: ">> \o dir \o MsgCdFailed >>]_vars

\* No one-shot command changes the registry, the shells, their pipes or the
\* lock.
ExecutorFrame ==
    last'.op \in {"execute_command", "execute_root_command"} =>
        UNCHANGED <<sessions, procs, pipes, lock, nextId, nextPid, penv, files>>

\* A one-shot command can run, whoever holds the lock.
ExecutorNeverWaits ==
    ~aborted =>
        /\ \A wd \in ExecWorkingDirs : ENABLED ExecuteCommand(<<"c", "d", " ", "/", "s">>, wd, "exit_0")
        /\ ENABLED ExecuteCommand(Ls, DirT, "exit_0")
        /\ \A command \in RootCommands : ENABLED ExecuteRootCommand(command, "exit_0")

\* C13: execute_command and execute_root_command never read or write the
\* session map and never take the registry lock: for every command, the
\* built-in cd included, every session's cwd, environment, history,
\* last_activity and owned process are unchanged, and the call can proceed
\* while another thread holds the lock.
C13_ExecutorApart ==
    [](ExecutorNeverWaits) /\ [][ExecutorFrame]_vars

\* A cd to a directory ran to its end while a read_output held the lock on a
\* session that is in another directory.
C13_Witness ==
    /\ last.op = "execute_command"
    /\ last.out.given.command = <<"c", "d", " ", "/", "s">>
    /\ last.ok
    /\ lock # None
    /\ sessions[Unwrap(lock).id].working_directory = DirT

\* The session whose read_output holds the lock.
Holder == Unwrap(lock).id

\* While a read_output holds the lock, a step is that call going on or
\* returning, or time passing, or a shell exiting; no session is created,
\* removed or changed but for the last_activity the returning call sets in
\* its own session, and no shell is started or killed.
OnlyTheHolderMoves ==
    lock # None =>
        /\ \/ last'.op \in {"read_line", "read_output"} /\ last'.id = Holder
           \/ last'.op \in {"tick", "proc_exit"} /\ UNCHANGED <<sessions, lock>>
        /\ lock' # None => Unwrap(lock').id = Holder /\ UNCHANGED sessions
        /\ DOMAIN sessions' = DOMAIN sessions
        /\ OthersUnchanged(Holder)
        /\ sessions'[Holder] = [sessions[Holder] EXCEPT !.last_activity = sessions'[Holder].last_activity]
        /\ \A pid \in DOMAIN procs : procs'[pid] # "killed" \/ procs[pid] = "killed"
        /\ UNCHANGED nextPid

\* While a read_output holds the lock, no registry call can run, on its
\* session or on any other.
OthersWait ==
    lock # None =>
        \A id \in Ids :
            /\ ~ENABLED IsShellRunning(id)
            /\ ~ENABLED StopCommand(id)
            /\ ~ENABLED CloseSession(id)
            /\ ~ENABLED StartInteractiveShell(id, TRUE)
            /\ ~ENABLED ReadOutput(id, 0)

\* C14: the registry operations exclude each other under one lock: at most
\* one is inside its critical section, so that while a read_output on one
\* session is in progress no registry operation on any other session makes
\* progress until it finishes.
C14_OneAtATime ==
    [](OthersWait) /\ [][OnlyTheHolderMoves]_vars

\* A read_output on one session has been waiting for a line while time
\* passed; the other session owns a running shell and its calls wait.
C14_Witness ==
    /\ lock # None
    /\ Unwrap(lock).start_time < now
    /\ \E other \in DOMAIN sessions \ {Holder} :
            /\ Owns(other)
            /\ procs[OwnedPid(other)] = "running"
            /\ ~ENABLED StopCommand(other)

\* C15: every create_session succeeds and returns an identifier that no
\* earlier call returned (those of sessions since closed included); it
\* overwrites no session, and the new session has cwd = initial_working_dir,
\* an empty history, no process and created_at = last_activity.
C15_CreateSession ==
    [][last'.op = "create_session" =>
        LET id == last'.out
        IN  /\ last'.ok
            /\ id \notin 1 .. (nextId - 1)
            /\ id \notin DOMAIN sessions
            /\ DOMAIN sessions' = DOMAIN sessions \cup {id}
            /\ \A o \in DOMAIN sessions : sessions'[o] = sessions[o]
            /\ sessions'[id].history = <<>>
            /\ sessions'[id].current_process = None
            /\ sessions'[id].working_directory \in CdWorkingDirs
            /\ sessions'[id].environment[HOME] = sessions'[id].working_directory
            /\ sessions'[id].created_at = sessions'[id].last_activity]_vars

OpsReturningFalse ==
    {"close_session", "change_directory", "stop_command", "is_shell_running",
     "save_command_history", "load_command_history"}

OpsReturningNotFound ==
    {"start_interactive_shell", "send_input", "read_output", "get_command_history"}

\* A call on an id that is not in the registry fails and changes nothing.
UnknownIdEffect ==
    \A id \in Ids \ DOMAIN sessions :
        /\ last'.id = id
        /\ last'.op \in OpsReturningFalse \cup OpsReturningNotFound \cup {"get_working_directory"}
        => /\ UNCHANGED <<sessions, procs, pipes, lock, nextId, nextPid, penv, files, aborted>>
           /\ last'.op \in OpsReturningFalse => ~last'.ok
           /\ last'.op \in OpsReturningNotFound => ~last'.ok /\ last'.msg = MsgNotFound
           /\ last'.op = "get_working_directory" => last'.out = Root

\* C16: for an id not in the registry, close_session, change_directory,
\* stop_command, is_shell_running, save_history and load_history return
\* false; start_interactive_shell, send_input, read_output and
\* get_command_history return success = false with "Session not found";
\* get_working_directory returns "/"; no session is created, removed or
\* changed and no process is spawned.
C16_UnknownId ==
    [][UnknownIdEffect]_vars

\* get_command_history was refused for a session that was closed, while a
\* saved history file is there.
C16_Witness ==
    /\ last.op = "get_command_history"
    /\ last.id = 1
    /\ last.id \notin DOMAIN sessions
    /\ last.msg = MsgNotFound
    /\ HistFile \in DOMAIN files

\* The sessions in the registry that own process pid.
OwnersOf(pid) ==
    {id \in DOMAIN sessions : Owns(id) /\ OwnedPid(id) = pid}

\* C17: no interactive process outlives its owner: in every reachable state
\* each live interactive shell is owned by exactly one session of the
\* registry; close_session and cleanup_inactive kill the owned process before
\* they remove the session, stop_command kills it before it drops the handle.
C17_NoOrphanShell ==
    \A pid \in DOMAIN procs :
        procs[pid] = "running" => Cardinality(OwnersOf(pid)) = 1

\* cleanup has just removed a session and killed the shell it owned, and has
\* kept another session whose shell runs.
C17_Witness ==
    /\ last.op = "cleanup_inactive_sessions"
    /\ last.out.removed_sessions # {}
    /\ \E pid \in DOMAIN procs : procs[pid] = "killed" /\ OwnersOf(pid) = {}
    /\ \E pid \in DOMAIN procs : procs[pid] = "running" /\ OwnersOf(pid) # {}

\* C18: once the interactive process of a session has exited on its own,
\* the next is_shell_running, read_output or stop_command on that session
\* detects the exit and drops the handle: afterwards the session owns no
\* process.
C18_ExitDetectedThenDropped ==
    [][\A id \in Ids :
            /\ Owns(id)
            /\ procs[OwnedPid(id)] = "exited"
            /\ last'.id = id
            /\ last'.op \in {"is_shell_running", "read_output", "stop_command"}
            => /\ id \in DOMAIN sessions'
               /\ sessions'[id].current_process = None]_vars

\* A session that owns a shell has in its history the lines that went into the
\* shell's stdin, in that order; a session without shell has sent nothing.
\* (No shell is stopped or replaced here, nor a history loaded.)
HistoryIsStdin ==
    \A id \in DOMAIN sessions :
        sessions[id].history =
            IF Owns(id) THEN pipes[OwnedPid(id)].stdin ELSE <<>>

\* A send_input that succeeds puts its line at the end of the history and at
\* the end of what the shell was sent; no other step, a failing send_input
\* and a one-shot command included, changes a history.
HistoryGrowsBySendInput ==
    IF last'.op = "send_input" /\ last'.ok
    THEN /\ sessions'[last'.id].history = Append(sessions[last'.id].history, last'.out)
         /\ pipes'[OwnedPid(last'.id)].stdin =
                Append(pipes[OwnedPid(last'.id)].stdin, last'.out)
         /\ \A o \in DOMAIN sessions \ {last'.id} : sessions'[o].history = sessions[o].history
    ELSE \A o \in DOMAIN sessions : sessions'[o].history = sessions[o].history

\* C19: however concurrent send_input calls on a session interleave, its
\* history holds the lines of the successful calls in the order the calls
\* completed, which is the order the lines were written to the shell's
\* stdin; one-shot execute_command calls add no history entry.
C19_HistoryInCompletionOrder ==
    [](HistoryIsStdin) /\ [][HistoryGrowsBySendInput]_vars

\* Two different lines went through, then a send_input failed and a one-shot
\* command ran: the history is the two lines in the order they were sent.
C19_Witness ==
    /\ last.op = "execute_command"
    /\ \E id \in DOMAIN sessions :
            /\ sessions[id].history = << <<"a">>, <<>> >>
            /\ Owns(id)
            /\ pipes[OwnedPid(id)].stdin = << <<"a">>, <<>> >>
            /\ procs[OwnedPid(id)] = "exited"

IsPrefix(a, b) ==
    Len(a) <= Len(b) /\ a = SubSeq(b, 1, Len(a))

\* C20: over any sequence of read_output calls on one process, the stdout
\* lines returned, put end to end, are a prefix of the lines the process
\* emitted on stdout, in emission order, none lost and none returned twice;
\* likewise for stderr.
C20_ReturnedIsPrefixOfEmitted ==
    \A pid \in DOMAIN pipes, stream \in Streams :
        IsPrefix(pipes[pid][stream].returned, pipes[pid][stream].emitted)

\* A start_interactive_shell whose spawn fails returns success = false and
\* leaves the registry, the shells and their pipes as they were; its session
\* is there and owns nothing.
SpawnFailureChangesNothing ==
    \A id \in Ids :
        Called("start_interactive_shell", id) /\ last'.msg = MsgSpawnFailed =>
            /\ ~last'.ok
            /\ id \in DOMAIN sessions
            /\ ~Owns(id)
            /\ UNCHANGED <<sessions, procs, pipes, nextPid, nextId, penv, files>>

\* After a failed spawn the same session can be given a shell.
CanStartAfterFailure ==
    /\ last.op = "start_interactive_shell"
    /\ last.msg = MsgSpawnFailed
    /\ nextPid <= MaxProcs
    => ENABLED (StartInteractiveShell(last.id, TRUE) /\ last'.ok)

\* C21: a start_interactive_shell that fails to spawn the shell fails alone:
\* it returns success = false, the session stays in the registry without
\* process, its cwd, environment, history and last_activity unchanged, a
\* later start_interactive_shell on it can succeed, and no other session is
\* affected.
C21_SpawnFailureIsLocal ==
    [](CanStartAfterFailure) /\ [][SpawnFailureChangesNothing]_vars

\* A spawn failed on one session, at a later time than its creation, while
\* the other session owns a running shell.
C21_Witness ==
    /\ last.op = "start_interactive_shell"
    /\ last.msg = MsgSpawnFailed
    /\ sessions[last.id].last_activity < now
    /\ \E o \in DOMAIN sessions \ {last.id} : Owns(o) /\ procs[OwnedPid(o)] = "running"

\* C22: every one-shot execution that spawned its child returns, whatever
\* the child writes to stderr and stdout and in whatever order, given that
\* the child exits when it has written everything.
C22_OneShotReturns == IsSome(oneshot) ~> oneshot = None

\* load_history that succeeds puts the lines of the file in the place of
\* the history of its session and changes nothing else; it fails exactly for
\* an unknown id or a file that cannot be read, and then changes nothing.
LoadHistoryEffect ==
    \A id \in Ids, file_path \in FilePaths :
        Called("load_command_history", id) /\ last'.out = file_path =>
            /\ last'.ok <=> (id \in DOMAIN sessions /\ file_path \in DOMAIN files)
            /\ IF last'.ok
               THEN /\ DOMAIN sessions' = DOMAIN sessions
                    /\ sessions'[id].history = Lines(files[file_path])
                    /\ \A f \in DOMAIN sessions[id] \ {"history"} :
                           sessions'[id][f] = sessions[id][f]
                    /\ OthersUnchanged(id)
               ELSE UNCHANGED sessions
            /\ UNCHANGED <<procs, pipes, files, penv>>

\* save_history changes no session, whatever it returns.
SaveHistoryEffect ==
    \A id \in Ids :
        Called("save_command_history", id) => UNCHANGED <<sessions, procs, pipes, penv>>

\* C23: load_history on success replaces the whole history by the lines of
\* the file and returns true, with an unreadable file or an unknown id it
\* returns false and leaves the history; save_history changes no session;
\* neither changes last_activity, working directory, environment or the
\* owned process.
C23_HistoryFileFrame == [][LoadHistoryEffect /\ SaveHistoryEffect]_vars

\* A load succeeded on a session whose shell was sent more lines than the
\* file holds: the history is the file's lines, not what was sent.
C23_Witness ==
    /\ last.op = "load_command_history"
    /\ last.ok
    /\ Owns(last.id)
    /\ sessions[last.id].history # <<>>
    /\ Len(sessions[last.id].history) < Len(pipes[OwnedPid(last.id)].stdin)

\* A read_output call is inside read_line on a stream that has nothing
\* unread, of a shell that runs.
BlockedInRead ==
    /\ lock # None
    /\ LET L == Unwrap(lock)
           s == pipes[ReaderPid(L)][L.stream]
       IN  s.read = Len(s.emitted) /\ procs[ReaderPid(L)] = "running"

\* The steps of handlers that take the SESSIONS lock.
LockingOps ==
    {"create_session", "close_session", "stop_command", "start_interactive_shell",
     "cleanup_inactive_sessions", "panic", "read_output", "read_line"}

\* From a blocked read_output no handler that needs the lock takes a step,
\* the call keeps the lock and the registry and the processes stay as they
\* are, until the shell it reads from emits a line or exits.
BlockedUntilShellActs ==
    BlockedInRead =>
        /\ last'.op \notin LockingOps
        /\ lock' = lock
        /\ UNCHANGED sessions
        /\ \A pid \in DOMAIN procs : procs'[pid] = "killed" => procs[pid] = "killed"
        /\ \/ BlockedInRead'
           \/ /\ last'.op \in {"emit", "proc_exit"}
              /\ last'.out = ReaderPid(Unwrap(lock))

\* C24: while read_output is blocked on a shell that neither emits a line
\* nor closes the stream, it holds the lock: no stop_command, close_session
\* or cleanup_inactive_sessions completes, on any session, and only the
\* shell itself ends the wait.
C24_BlockedReadHoldsLock == [][BlockedUntilShellActs]_vars

\* A read_output is blocked past its budget while a cleanup waits for the
\* lock and the other session owns a running shell.
C24_Witness ==
    /\ BlockedInRead
    /\ ~InBudget(Unwrap(lock))
    /\ cleanupPending # {}
    /\ \E o \in DOMAIN sessions \ {Unwrap(lock).id} :
           Owns(o) /\ procs[OwnedPid(o)] = "running"

\* The scan of a cleanup call runs with the clock reading current_time.
ScanStep(current_time) ==
    /\ current_time \in cleanupPending
    /\ current_time \notin cleanupPending'
    /\ last'.op \in {"cleanup_inactive_sessions", "panic"}

\* C25: in cleanup_inactive_sessions the subtraction current_time -
\* last_activity never underflows: the clock reading of the call is not
\* earlier than the last_activity of any session the scan examines, the scan
\* does not panic, and a session it removes has been idle for more than the
\* threshold.
C25_NoUnderflow ==
    [][\A current_time \in cleanupPending :
            ScanStep(current_time) =>
                /\ \A id \in DOMAIN sessions : sessions[id].last_activity <= current_time
                /\ last'.op # "panic"
                /\ \A id \in DOMAIN sessions \ DOMAIN sessions' :
                       now - sessions[id].last_activity >
                           last'.out.max_idle_time_seconds * MsPerSec]_vars

\* C26: when two set_env_var calls for one name with different values have
\* both returned, the copy of every session holds for that name the value
\* the process-wide environment holds.
C26_CopiesAgreeWithProcessEnv ==
    /\ last.op = "set_env_var"
    /\ envPending = {}
    => \A id \in DOMAIN sessions :
           sessions[id].environment[last.out.name] = penv[last.out.name]

\* Every session has an entry for each of the six names create_session sets.
DefaultsPresent ==
    \A id \in DOMAIN sessions : DefaultNames \subseteq DOMAIN sessions[id].environment

\* The HOME of a session that has just been created is its working directory.
HomeIsInitialDirectory ==
    \A id \in Ids :
        Called("create_session", id) =>
            /\ id \in DOMAIN sessions'
            /\ sessions'[id].environment[HOME] = sessions'[id].working_directory

\* change_directory finds a HOME in the session it works on.
HomeFoundByChangeDirectory ==
    \A id \in DOMAIN sessions :
        Called("change_directory", id) => HOME \in DOMAIN sessions[id].environment

\* C27: in every reachable state the environment of every session has HOME,
\* TERM, LANG, PS1, HISTSIZE and HISTFILESIZE; the HOME of a new session is
\* its initial working directory, whatever HOME the process has; so
\* change_directory never takes its branch for a session without HOME.
C27_DefaultsAlwaysPresent ==
    [](DefaultsPresent) /\ [][HomeIsInitialDirectory /\ HomeFoundByChangeDirectory]_vars

\* A session created after the HOME of the process was changed went to its
\* own HOME, which is not the HOME of the process.
C27_Witness ==
    /\ last.op = "change_directory"
    /\ last.ok
    /\ last.out.directory = <<"~">>
    /\ penv[HOME] = DirS
    /\ sessions[last.id].environment[HOME] # DirS
    /\ sessions[last.id].working_directory = sessions[last.id].environment[HOME]

\* The handlers that count as a use of their session.
ActivityOps ==
    {"change_directory", "start_interactive_shell", "send_input", "stop_command",
     "read_output"}

\* The last_activity of a session that stays changes only in a step of one
\* of these handlers on that session that succeeds, and then to the time of
\* the step.
ActivityOnlyByUse ==
    \A id \in DOMAIN sessions \cap DOMAIN sessions' :
        sessions'[id].last_activity # sessions[id].last_activity =>
            /\ last'.op \in ActivityOps
            /\ last'.id = id
            /\ last'.ok
            /\ sessions'[id].last_activity = CurrentTimeMillis

\* read_output succeeds whenever its session owns a process, and counts.
ReadOutputCounts ==
    \A id \in Ids :
        Called("read_output", id) /\ lock = None =>
            /\ last'.ok <=> Owns(id)
            /\ last'.ok => sessions'[id].last_activity = CurrentTimeMillis

\* A cleanup that returns removes every session that has not been used for
\* longer than the threshold when the call read the clock.
IdleIsEvicted ==
    CleanupReturned =>
        \A id \in DOMAIN sessions :
            /\ CleanupOut.current_time >= sessions[id].last_activity
            /\ CleanupOut.current_time - sessions[id].last_activity >
                   CleanupOut.max_idle_time_seconds * MsPerSec
            => id \notin DOMAIN sessions'

\* C28: last_activity changes only in a successful change_directory,
\* start_interactive_shell, send_input, stop_command, or a read_output that
\* found an owned process; a failed call and every other handler leave it,
\* so that a session used through those alone is evicted by the cleanup that
\* runs once its threshold has passed.
C28_ActivityFrame == [][ActivityOnlyByUse /\ ReadOutputCounts /\ IdleIsEvicted]_vars

\* A session that has a shell and a history was reported idle for a second
\* or more: the handlers that ran since it was last used left last_activity.
C28_Witness ==
    /\ last.op = "get_session_info"
    /\ last.ok
    /\ last.out.idle_time_seconds >= 1
    /\ last.out.history_size > 0
    /\ last.out.process_running
    /\ HistFile \in DOMAIN files
    /\ FOO \in DOMAIN sessions[last.id].environment

\* An identifier that left the registry does not come back.
RemovedStaysRemoved ==
    \A id \in Removed : id \notin DOMAIN sessions'

\* A call with the identifier of a session that is gone is refused as a call
\* with an identifier that never was, and changes nothing.
RemovedIsRefused ==
    \A id \in Removed :
        last'.id = id =>
            /\ UNCHANGED <<sessions, procs, pipes, lock, nextId, nextPid, penv, files>>
            /\ IF last'.op = "get_working_directory"
               THEN last'.out = Root
               ELSE /\ ~last'.ok
                    /\ last'.op \in OpsReturningNotFound \cup {"get_session_info"}
                           => last'.msg = MsgNotFound

\* C29: Closed is terminal: an identifier removed by close_session or by
\* cleanup_inactive_sessions is never in the registry again, and every later
\* call with it behaves as for an unknown identifier.
C29_ClosedIsTerminal == [][RemovedStaysRemoved /\ RemovedIsRefused]_vars

\* start_interactive_shell was refused for a session that cleanup removed
\* with its shell, while a session created later is in the registry.
C29_Witness ==
    /\ last.op = "start_interactive_shell"
    /\ last.id \in Removed
    /\ last.msg = MsgNotFound
    /\ \E pid \in DOMAIN procs : procs[pid] = "killed"
    /\ \E id \in DOMAIN sessions : id > last.id /\ sessions[id].created_at > 0

\* The handlers that work on the session they are given.
SingleSessionOps ==
    {"change_directory", "start_interactive_shell", "send_input", "read_output",
     "stop_command", "load_command_history", "close_session"}

\* The handlers that work on every session of the registry.
RegistryOps == {"set_env_var", "cleanup_inactive_sessions"}

\* The sessions a step removes or changes.
Touched == {id \in DOMAIN sessions : id \notin DOMAIN sessions' \/ sessions'[id] # sessions[id]}

\* The processes a step ends, and the processes whose pipes it uses.
TouchedProcs ==
    {pid \in DOMAIN procs : procs'[pid] # procs[pid] \/ pipes'[pid] # pipes[pid]}

\* A step of a handler that is given session s touches s alone, and the
\* shell of s alone; no session appears.
OneSessionTouched ==
    last'.op \in SingleSessionOps =>
        /\ Touched \subseteq {last'.id}
        /\ DOMAIN sessions' \subseteq DOMAIN sessions
        /\ \A pid \in TouchedProcs : Owns(last'.id) /\ OwnedPid(last'.id) = pid

\* A step that touches more than one session is a step of set_env_var or
\* of cleanup_inactive_sessions.
SeveralOnlyByRegistryOps ==
    Cardinality(Touched) > 1 => last'.op \in RegistryOps

\* C30: change_directory, start_interactive_shell, send_input, read_output,
\* stop_command, load_history and close_session called with session s change
\* at most session s; only set_env_var and cleanup_inactive_sessions change
\* several sessions in one call.
C30_SessionIsolation == [][OneSessionTouched /\ SeveralOnlyByRegistryOps]_vars

\* A session moved to another directory while the other session, with a
\* running shell and a history, stayed where it was.
C30_Witness ==
    /\ last.op = "change_directory"
    /\ last.ok
    /\ \E o \in DOMAIN sessions \ {last.id} :
           /\ sessions[o].working_directory # sessions[last.id].working_directory
           /\ sessions[o].history # <<>>
           /\ Owns(o)
           /\ procs[OwnedPid(o)] = "running"

====
